---------------------------- MODULE Spec2Model ----------------------------
(***************************************************************************)
(* A model of the tender-intake board: the document-acquisition pipeline   *)
(* of services/geminiService (downloader, relevance filter, classifier,    *)
(* batch prober, page scraper), the new-tender form that drives it, and    *)
(* the board's record list.                                                *)
(*                                                                         *)
(* JavaScript strings are modelled as sequences of characters, so that     *)
(* includes / startsWith / endsWith / toLowerCase / normalize are computed *)
(* on the text and not assumed.  A state holds a string either as such a   *)
(* sequence or as the TLA+ string naming it in StrTab.                     *)
(***************************************************************************)
EXTENDS Naturals, Integers, Sequences, FiniteSets, TLC

VARIABLES
  \* --- one call of downloadFileFromUrl
  dlPc,          \* "idle", "fetch" (awaiting fetch), "blob" (awaiting response.blob()), "done"
  dlUrl,         \* the url argument
  dlPrefix,      \* the defaultPrefix argument
  dlAttempt,     \* 0, or the relay being tried (1, 2)
  timeoutArmed,  \* the abort timer of the current attempt is pending
  requests,      \* the relay requests issued so far: <<[relay, target]>>
  disposition,   \* the Content-Disposition of the response whose body is awaited
  attempts,      \* each finished tryDownload: the payload it read (or Null) and what it returned
  dlResult       \* what the call returned: Null, a file, or Threw

VARIABLES
  \* --- the NewTenderForm component
  form,           \* its state: isOpen, name, tenderPageUrl, adminUrl, adminFile, techUrl,
                  \* techFile, summaryFile, isExtracting, downloadError
  runs,           \* the handleFile / handleManualScrape calls awaiting a promise
  submissions,    \* how many tenders the form has handed over
  formTrace       \* what the last step of the form was: a submission, the end of a run, or Null

VARIABLES
  \* --- the App component
  tenders,        \* the tender list, newest first
  analyzingIds,   \* the ids of the tenders being analysed
  selectedTender, \* the tender open in the detail view, or Null
  error,          \* the error notification shown, or Null
  apiKey,         \* process.env.API_KEY is set
  analyses,       \* per tender id: Null, or the handleAnalyze call awaiting the service
  dismissTimers,  \* the pending setTimeout(() => setError(null), 5000) callbacks
  analysisEnded   \* the handleAnalyze call that ended in the last step (its tender id and how), or Null

VARIABLES
  \* --- one call of scrapeDocsFromWeb
  scPc,           \* "idle", "fetch" (awaiting the page), "loop" (in the for loop), "done"
  pageUrl,        \* the pageUrl argument
  anchors,        \* doc.querySelectorAll('a'), in document order
  scIndex,        \* how many anchors the loop has gone through
  scAdminUrl,     \* the local adminUrl (Null while undefined)
  scTechUrl,      \* the local techUrl (Null while undefined)
  potentialPdfs,
  scResult        \* what the call returned: Null until then, then { adminUrl, techUrl }

VARIABLES
  \* --- one run of probeLinksInBatches
  prPc,           \* "idle", "loop" (at the loop test), "await" (in Promise.all), "done"
  links,          \* the links argument
  uniqueLinks,
  results,        \* { admin?, tech? }
  i,              \* the loop index
  processed,
  batch,          \* the links of the group in flight
  batchResults,   \* per link of the group: Pending, or what its probe resolved with
  progressCalls,  \* the (processed, total) pairs given to onProgress
  probed,         \* the links probeAndDownloadLink was called with, in order
  settled,        \* per link of uniqueLinks: "-", or how its probe ended
  slotWrites,     \* how often each slot was assigned in this run
  returned        \* what the run returned

VARIABLES
  \* --- the two pure helpers, called on their own
  relevanceCall,  \* the last isRelevantLink(url): its url and what it returned, or Null
  classifyCall    \* the last classifyFile(file): the file's name and the tag returned, or Null


\* ------------------------------------------------------------------------
\* The string literals of the sources and of the inputs, spelled out.
\* "[D800]" stands for one unpaired UTF-16 surrogate.
StrTab ==
     ("" :> <<>>)
  @@ ("http" :> <<"h","t","t","p">>)
  @@ ("text/html" :> <<"t","e","x","t","/","h","t","m","l">>)
  @@ ("<html" :> <<"<","h","t","m","l">>)
  @@ ("Error" :> <<"E","r","r","o","r">>)
  @@ ("Denied" :> <<"D","e","n","i","e","d">>)
  @@ ("filename=" :> <<"f","i","l","e","n","a","m","e","=">>)
  @@ ("." :> <<".">>)
  @@ ("_" :> <<"_">>)
  @@ ("zip" :> <<"z","i","p">>)
  @@ ("word" :> <<"w","o","r","d">>)
  @@ (".pdf" :> <<".","p","d","f">>)
  @@ (".zip" :> <<".","z","i","p">>)
  @@ (".docx" :> <<".","d","o","c","x">>)
  @@ ("doc" :> <<"d","o","c">>)
  @@ ("PCAP" :> <<"P","C","A","P">>)
  @@ ("PPT" :> <<"P","P","T">>)
  @@ ("application/pdf" :> <<"a","p","p","l","i","c","a","t","i","o","n","/","p","d","f">>)
  @@ ("text/html; charset=utf-8" :> <<"t","e","x","t","/","h","t","m","l",";"," ","c","h","a","r","s","e","t","=","u","t","f","-","8">>)
  @@ ("application/zip" :> <<"a","p","p","l","i","c","a","t","i","o","n","/","z","i","p">>)
  @@ ("application/msword" :> <<"a","p","p","l","i","c","a","t","i","o","n","/","m","s","w","o","r","d">>)
  @@ ("application/octet-stream" :> <<"a","p","p","l","i","c","a","t","i","o","n","/","o","c","t","e","t","-","s","t","r","e","a","m">>)
  @@ ("%PDF-1.4" :> <<"%","P","D","F","-","1",".","4">>)
  @@ ("<html><body>Acceso</body></html>" :> <<"<","h","t","m","l",">","<","b","o","d","y",">","A","c","c","e","s","o","<","/","b","o","d","y",">","<","/","h","t","m","l",">">>)
  @@ ("Error 403" :> <<"E","r","r","o","r"," ","4","0","3">>)
  @@ ("Access Denied" :> <<"A","c","c","e","s","s"," ","D","e","n","i","e","d">>)
  @@ ("error denied" :> <<"e","r","r","o","r"," ","d","e","n","i","e","d">>)
  @@ ("attachment; filename=\"PCAP_2024.pdf\"" :> <<"a","t","t","a","c","h","m","e","n","t",";"," ","f","i","l","e","n","a","m","e","=","\"","P","C","A","P","_","2","0","2","4",".","p","d","f","\"">>)
  @@ ("attachment; filename=Memoria_Técnica.pdf" :> <<"a","t","t","a","c","h","m","e","n","t",";"," ","f","i","l","e","n","a","m","e","=","M","e","m","o","r","i","a","_","T","é","c","n","i","c","a",".","p","d","f">>)
  @@ ("inline" :> <<"i","n","l","i","n","e">>)
  @@ ("attachment; filename=\"\"" :> <<"a","t","t","a","c","h","m","e","n","t",";"," ","f","i","l","e","n","a","m","e","=","\"","\"">>)
  @@ ("attachment; filename='informe'" :> <<"a","t","t","a","c","h","m","e","n","t",";"," ","f","i","l","e","n","a","m","e","=","'","i","n","f","o","r","m","e","'">>)
  @@ ("ftp://e.s/a.pdf" :> <<"f","t","p",":","/","/","e",".","s","/","a",".","p","d","f">>)
  @@ ("http://e.s/a.pdf" :> <<"h","t","t","p",":","/","/","e",".","s","/","a",".","p","d","f">>)
  @@ ("https://e.s/b" :> <<"h","t","t","p","s",":","/","/","e",".","s","/","b">>)
  @@ ("http://e.s/[D800]" :> <<"h","t","t","p",":","/","/","e",".","s","/","[D800]">>)
  @@ ("pcap" :> <<"p","c","a","p">>)
  @@ ("admin" :> <<"a","d","m","i","n">>)
  @@ ("clausula" :> <<"c","l","a","u","s","u","l","a">>)
  @@ ("juridico" :> <<"j","u","r","i","d","i","c","o">>)
  @@ ("caratula" :> <<"c","a","r","a","t","u","l","a">>)
  @@ ("ppt" :> <<"p","p","t">>)
  @@ ("tecnic" :> <<"t","e","c","n","i","c">>)
  @@ ("prescrip" :> <<"p","r","e","s","c","r","i","p">>)
  @@ ("memoria" :> <<"m","e","m","o","r","i","a">>)
  @@ ("proyecto" :> <<"p","r","o","y","e","c","t","o">>)
  @@ ("mailto:" :> <<"m","a","i","l","t","o",":">>)
  @@ ("google.com" :> <<"g","o","o","g","l","e",".","c","o","m">>)
  @@ ("facebook" :> <<"f","a","c","e","b","o","o","k">>)
  @@ ("twitter" :> <<"t","w","i","t","t","e","r">>)
  @@ ("linkedin" :> <<"l","i","n","k","e","d","i","n">>)
  @@ ("maps." :> <<"m","a","p","s",".">>)
  @@ ("youtube" :> <<"y","o","u","t","u","b","e">>)
  @@ ("https://e.s/d" :> <<"h","t","t","p","s",":","/","/","e",".","s","/","d">>)
  @@ ("mailto:a@e.s" :> <<"m","a","i","l","t","o",":","a","@","e",".","s">>)
  @@ ("https://www.Facebook.com/e" :> <<"h","t","t","p","s",":","/","/","w","w","w",".","F","a","c","e","b","o","o","k",".","c","o","m","/","e">>)
  @@ ("https://e.s/?to=mailto:a" :> <<"h","t","t","p","s",":","/","/","e",".","s","/","?","t","o","=","m","a","i","l","t","o",":","a">>)
  @@ ("https://maps.e.s/m" :> <<"h","t","t","p","s",":","/","/","m","a","p","s",".","e",".","s","/","m">>)
  @@ ("1730000000000" :> <<"1","7","3","0","0","0","0","0","0","0","0","0","0">>)
  @@ (" " :> <<" ">>)
  @@ ("javascript" :> <<"j","a","v","a","s","c","r","i","p","t">>)
  @@ ("#" :> <<"#">>)
  @@ ("/" :> <<"/">>)
  @@ ("javascript:void(0)" :> <<"j","a","v","a","s","c","r","i","p","t",":","v","o","i","d","(","0",")">>)
  @@ ("docs/pcap.pdf" :> <<"d","o","c","s","/","p","c","a","p",".","p","d","f">>)
  @@ ("http://e.s/b.PDF" :> <<"h","t","t","p",":","/","/","e",".","s","/","b",".","P","D","F">>)
  @@ ("http://e.s/m.pdf" :> <<"h","t","t","p",":","/","/","e",".","s","/","m",".","p","d","f">>)
  @@ ("http://e.s/info" :> <<"h","t","t","p",":","/","/","e",".","s","/","i","n","f","o">>)
  @@ ("http://e.s/x.zip" :> <<"h","t","t","p",":","/","/","e",".","s","/","x",".","z","i","p">>)
  @@ ("http://e.s/c.pdf?v=1" :> <<"h","t","t","p",":","/","/","e",".","s","/","c",".","p","d","f","?","v","=","1">>)
  @@ ("Pliego" :> <<"P","l","i","e","g","o">>)
  @@ ("Descargar" :> <<"D","e","s","c","a","r","g","a","r">>)
  @@ ("Memoria Técnica" :> <<"M","e","m","o","r","i","a"," ","T","é","c","n","i","c","a">>)
  @@ ("Cláusulas administrativas" :> <<"C","l","á","u","s","u","l","a","s"," ","a","d","m","i","n","i","s","t","r","a","t","i","v","a","s">>)
  @@ ("PCAP y PPT" :> <<"P","C","A","P"," ","y"," ","P","P","T">>)
  @@ ("Ver" :> <<"V","e","r">>)
  @@ ("http://e.s/t/page" :> <<"h","t","t","p",":","/","/","e",".","s","/","t","/","p","a","g","e">>)
  @@ ("http://e.s/t/" :> <<"h","t","t","p",":","/","/","e",".","s","/","t","/">>)
  @@ ("clausulas" :> <<"c","l","a","u","s","u","l","a","s">>)
  @@ ("administrativ" :> <<"a","d","m","i","n","i","s","t","r","a","t","i","v">>)
  @@ ("bases" :> <<"b","a","s","e","s">>)
  @@ ("anexo" :> <<"a","n","e","x","o">>)
  @@ ("prescripciones" :> <<"p","r","e","s","c","r","i","p","c","i","o","n","e","s">>)
  @@ ("e.s/t/page" :> <<"e",".","s","/","t","/","p","a","g","e">>)
  @@ ("Anexo I" :> <<"A","n","e","x","o"," ","I">>)
  @@ ("http://e.s/d.pdf" :> <<"h","t","t","p",":","/","/","e",".","s","/","d",".","p","d","f">>)
  @@ ("httpx://e.s/a" :> <<"h","t","t","p","x",":","/","/","e",".","s","/","a">>)
  @@ ("http://" :> <<"h","t","t","p",":","/","/">>)
  @@ ("https://" :> <<"h","t","t","p","s",":","/","/">>)
  @@ ("httpx://e.s/t/page" :> <<"h","t","t","p","x",":","/","/","e",".","s","/","t","/","p","a","g","e">>)
  @@ ("MAILTO:A@E.S" :> <<"M","A","I","L","T","O",":","A","@","E",".","S">>)
  @@ ("https://youtube.com/w" :> <<"h","t","t","p","s",":","/","/","y","o","u","t","u","b","e",".","c","o","m","/","w">>)
  @@ ("https://e.s/roadmaps.pdf" :> <<"h","t","t","p","s",":","/","/","e",".","s","/","r","o","a","d","m","a","p","s",".","p","d","f">>)
  @@ ("https://example.com/doc.pdf" :> <<"h","t","t","p","s",":","/","/","e","x","a","m","p","l","e",".","c","o","m","/","d","o","c",".","p","d","f">>)
  @@ ("https://google.com/x" :> <<"h","t","t","p","s",":","/","/","g","o","o","g","l","e",".","c","o","m","/","x">>)
  @@ ("https://twitter.com/x" :> <<"h","t","t","p","s",":","/","/","t","w","i","t","t","e","r",".","c","o","m","/","x">>)
  @@ ("https://linkedin.com/x" :> <<"h","t","t","p","s",":","/","/","l","i","n","k","e","d","i","n",".","c","o","m","/","x">>)
  @@ ("https://e.s/d1" :> <<"h","t","t","p","s",":","/","/","e",".","s","/","d","1">>)
  @@ ("https://e.s/google" :> <<"h","t","t","p","s",":","/","/","e",".","s","/","g","o","o","g","l","e">>)
  @@ ("PCAP_2024.pdf" :> <<"P","C","A","P","_","2","0","2","4",".","p","d","f">>)
  @@ ("Memoria_Tecnica.pdf" :> <<"M","e","m","o","r","i","a","_","T","e","c","n","i","c","a",".","p","d","f">>)
  @@ ("random_file.pdf" :> <<"r","a","n","d","o","m","_","f","i","l","e",".","p","d","f">>)
  @@ ("Memoria_Técnica.pdf" :> <<"M","e","m","o","r","i","a","_","T","é","c","n","i","c","a",".","p","d","f">>)
  @@ ("PCAP y PPT.pdf" :> <<"P","C","A","P"," ","y"," ","P","P","T",".","p","d","f">>)
  @@ ("ppt_administrativo.pdf" :> <<"p","p","t","_","a","d","m","i","n","i","s","t","r","a","t","i","v","o",".","p","d","f">>)
  @@ ("CARÁTULA.PDF" :> <<"C","A","R","Á","T","U","L","A",".","P","D","F">>)
  @@ ("Proyecto.zip" :> <<"P","r","o","y","e","c","t","o",".","z","i","p">>)
  @@ ("informe" :> <<"i","n","f","o","r","m","e">>)
  @@ ("Prescripciones.docx" :> <<"P","r","e","s","c","r","i","p","c","i","o","n","e","s",".","d","o","c","x">>)
  @@ ("Jurídico.pdf" :> <<"J","u","r","í","d","i","c","o",".","p","d","f">>)
  @@ ("Diseño.pdf" :> <<"D","i","s","e","ñ","o",".","p","d","f">>)

Str(s) == StrTab[s]

\* JS null / undefined where an object is expected, null where a string is
\* expected, and the marker of an exception escaping a function.
Null == [null |-> TRUE]
NullString == "[null]"
Threw == [threw |-> TRUE]

\* ------------------------------------------------------------------------
\* String primitives of JavaScript, on sequences of characters.

\* s.includes(sub)
Includes(s, sub) ==
  \E j \in 0..(Len(s) - Len(sub)) : SubSeq(s, j + 1, j + Len(sub)) = sub

\* s.startsWith(pre)
StartsWith(s, pre) ==
  Len(pre) <= Len(s) /\ SubSeq(s, 1, Len(pre)) = pre

\* s.endsWith(suf)
EndsWith(s, suf) ==
  Len(suf) <= Len(s) /\ SubSeq(s, Len(s) - Len(suf) + 1, Len(s)) = suf

UpperCase == <<"A","B","C","D","E","F","G","H","I","J","K","L","M",
               "N","O","P","Q","R","S","T","U","V","W","X","Y","Z",
               "Á","É","Í","Ó","Ú","Ñ">>
LowerCase == <<"a","b","c","d","e","f","g","h","i","j","k","l","m",
               "n","o","p","q","r","s","t","u","v","w","x","y","z",
               "á","é","í","ó","ú","ñ">>
\* The letters that NFD splits into a base letter and a combining mark.
Accented  == <<"á","é","í","ó","ú","ñ">>
BaseLetter == <<"a","e","i","o","u","n">>

IndexIn(seq, c) == CHOOSE j \in 1..Len(seq) : seq[j] = c
InSeq(seq, c) == \E j \in 1..Len(seq) : seq[j] = c

\* one character of s.toLowerCase()
LowerChar(c) == IF InSeq(UpperCase, c) THEN LowerCase[IndexIn(UpperCase, c)] ELSE c

\* s.toLowerCase()
ToLowerCase(s) == [j \in 1..Len(s) |-> LowerChar(s[j])]

\* one character through normalize("NFD").replace(/[u0300-u036f]/g, "")
StripMark(c) == IF InSeq(Accented, c) THEN BaseLetter[IndexIn(Accented, c)] ELSE c

StripMarks(s) == [j \in 1..Len(s) |-> StripMark(s[j])]

normalizeText(text) == StripMarks(ToLowerCase(text))

\* encodeURIComponent throws URIError on an unpaired surrogate.
CanEncode(s) == ~InSeq(s, "[D800]")

\* The decimal digits of a natural number, as characters.
DigitChars == <<"0","1","2","3","4","5","6","7","8","9">>
RECURSIVE Digits(_)
Digits(n) == IF n < 10 THEN <<DigitChars[n + 1]>>
             ELSE Digits(n \div 10) \o <<DigitChars[(n % 10) + 1]>>

\* ------------------------------------------------------------------------
\* classifyFile: the tag of a file, from its name.

AdminKeywords == {"pcap", "admin", "clausula", "juridico", "caratula"}
TechKeywords  == {"ppt", "tecnic", "prescrip", "memoria", "proyecto"}

\* (Variant first: the technical keywords are tried before the administrative.)
classifyNameTechFirst(fileName) ==
  CHOOSE tag \in {"ADMIN", "TECH", "UNKNOWN"} : \E name \in {normalizeText(fileName)} : tag =
  IF \E k \in TechKeywords : Includes(name, Str(k)) THEN "TECH"
  ELSE IF \E k \in AdminKeywords : Includes(name, Str(k)) THEN "ADMIN"
  ELSE "UNKNOWN"
\* (name is bound by a quantifier: normalizeText is computed once)
classifyName(fileName) ==
  CHOOSE tag \in {"ADMIN", "TECH", "UNKNOWN"} : \E name \in {normalizeText(fileName)} : tag =
  IF \E k \in AdminKeywords : Includes(name, Str(k)) THEN "ADMIN"
  ELSE IF \E k \in TechKeywords : Includes(name, Str(k)) THEN "TECH"
  ELSE "UNKNOWN"

classifyFile(file) == classifyName(file.name)

\* ------------------------------------------------------------------------
\* isRelevantLink: whether a URL is worth probing.

\* (Variant first: the URL is compared as written, not in lower case.)
isRelevantLinkAsWritten(url) ==
  IF StartsWith(url, Str("mailto:")) THEN FALSE
  ELSE IF \/ Includes(url, Str("google.com")) \/ Includes(url, Str("facebook"))
          \/ Includes(url, Str("twitter"))    \/ Includes(url, Str("linkedin"))
       THEN FALSE
  ELSE IF Includes(url, Str("maps.")) \/ Includes(url, Str("youtube")) THEN FALSE
  ELSE TRUE
isRelevantLink(url) ==
  \E lower \in {ToLowerCase(url)} :
  IF StartsWith(lower, Str("mailto:")) THEN FALSE
  ELSE IF \/ Includes(lower, Str("google.com")) \/ Includes(lower, Str("facebook"))
          \/ Includes(lower, Str("twitter"))    \/ Includes(lower, Str("linkedin"))
       THEN FALSE
  ELSE IF Includes(lower, Str("maps.")) \/ Includes(lower, Str("youtube")) THEN FALSE
  ELSE TRUE

\* ------------------------------------------------------------------------
\* The two helpers called on their own, over URLs and file names.

RelevanceUrls ==
  {"", "mailto:a@e.s", "MAILTO:A@E.S", "https://e.s/?to=mailto:a",
   "https://www.Facebook.com/e", "https://youtube.com/w", "https://maps.e.s/m",
   "https://e.s/roadmaps.pdf", "https://example.com/doc.pdf", "https://google.com/x",
   "https://twitter.com/x", "https://linkedin.com/x", "https://e.s/d1",
   "https://e.s/google"}

FileNames ==
  {"", "PCAP_2024.pdf", "Memoria_Tecnica.pdf", "random_file.pdf", "Memoria_Técnica.pdf",
   "PCAP y PPT.pdf", "ppt_administrativo.pdf", "CARÁTULA.PDF", "Proyecto.zip",
   "informe", "Prescripciones.docx", "Jurídico.pdf", "Diseño.pdf"}

PureInit == relevanceCall = Null /\ classifyCall = Null

CallIsRelevantLink(url) ==
  /\ relevanceCall' = [url |-> url, result |-> isRelevantLink(Str(url))]
  /\ UNCHANGED classifyCall

CallClassifyFile(fileName) ==
  /\ classifyCall' = [name |-> fileName, result |-> classifyFile([name |-> Str(fileName)])]
  /\ UNCHANGED relevanceCall

pureVars == <<relevanceCall, classifyCall>>

PureNext ==
  \/ \E url \in RelevanceUrls : CallIsRelevantLink(url)
  \/ \E fileName \in FileNames : CallClassifyFile(fileName)

\* ------------------------------------------------------------------------
\* downloadFileFromUrl: one URL through the two relays.

\* blob.size below which the text of a payload is inspected.
MinPlainSize == 2000

\* The relays, in the order they are tried.
Relays == <<"corsproxy.io", "api.allorigins.win">>

\* What a relay can answer: content types, sizes, bodies, Content-Disposition.
BlobTypes == {"application/pdf", "text/html", "text/html; charset=utf-8",
              "application/zip", "application/msword"}
BlobSizes == {500, MinPlainSize - 1, MinPlainSize, 3000}
BlobTexts == {"%PDF-1.4", "<html><body>Acceso</body></html>", "Error 403",
              "Access Denied", "error denied"}
\* (the text of a blob whose text() rejects is never seen: one stands for all)
Blobs == {b \in [type : BlobTypes, size : BlobSizes, text : BlobTexts, readable : BOOLEAN] :
            b.readable \/ b.text = "<html><body>Acceso</body></html>"}
Dispositions == {NullString, "inline", "attachment; filename=\"PCAP_2024.pdf\"",
                 "attachment; filename=Memoria_Técnica.pdf",
                 "attachment; filename=\"\"", "attachment; filename='informe'"}

\* new Date().getTime(), as text: an opaque value nothing else reads.
NowValues == {"1730000000000"}

\* The URLs and the name prefixes downloadFileFromUrl is called with.
DownloadUrls == {"", "ftp://e.s/a.pdf", "http://e.s/a.pdf", "https://e.s/b",
                 "httpx://e.s/a", "http://e.s/[D800]"}
Prefixes == {"doc", "PCAP"}

IsQuote(c) == c = "'" \/ c = "\""

\* The text of a payload holds a marker of an error page.
HasErrorMarker(text) ==
  Includes(text, Str("<html")) \/ Includes(text, Str("Error")) \/ Includes(text, Str("Denied"))

\* The payload check of tryDownload: TRUE when the attempt returns null.
\* (Variant first: without the content-type test that follows the marker scan.)
PayloadRejectedMarkersOnly(blob) ==
  /\ Includes(Str(blob.type), Str("text/html")) \/ blob.size < MinPlainSize
  /\ blob.readable /\ HasErrorMarker(Str(blob.text))
PayloadRejected(blob) ==
  /\ Includes(Str(blob.type), Str("text/html")) \/ blob.size < MinPlainSize
  /\ \/ blob.readable /\ HasErrorMarker(Str(blob.text))
     \/ Includes(Str(blob.type), Str("text/html"))

\* disposition.match(/filename=['"]?([^'"]+)['"]?/): group 1, or <<>> without a match.
RegexFilename(d) ==
  LET key == Str("filename=")
      \* where the name starts for a match of "filename=" at p
      NameStart(p) == IF p + Len(key) <= Len(d) /\ IsQuote(d[p + Len(key)])
                      THEN p + Len(key) + 1 ELSE p + Len(key)
      MatchesAt(p) == /\ p + Len(key) - 1 <= Len(d)
                      /\ SubSeq(d, p, p + Len(key) - 1) = key
                      /\ NameStart(p) <= Len(d)
                      /\ ~IsQuote(d[NameStart(p)])
      Hits == {p \in 1..Len(d) : MatchesAt(p)}
  IN IF Hits = {} THEN <<>>
     ELSE LET p == CHOOSE q \in Hits : \A r \in Hits : q <= r
              from == NameStart(p)
              \* the longest run without a quote
              to == CHOOSE e \in from..Len(d) :
                      /\ \A j \in from..e : ~IsQuote(d[j])
                      /\ e = Len(d) \/ IsQuote(d[e + 1])
          IN SubSeq(d, from, to)

\* The filename tryDownload takes from the Content-Disposition header.
ExtractFilename(header) ==
  IF header # NullString /\ Includes(Str(header), Str("filename="))
  THEN RegexFilename(Str(header))
  ELSE <<>>

\* The extension of a synthesised name.
Extension(blob, filename) ==
  IF filename # <<>> /\ Includes(filename, Str(".")) THEN Str(".pdf")
  ELSE IF blob.type = "application/pdf" THEN Str(".pdf")
  ELSE IF Includes(Str(blob.type), Str("zip")) THEN Str(".zip")
  ELSE IF Includes(Str(blob.type), Str("word")) THEN Str(".docx")
  ELSE Str(".pdf")

\* new File([blob], finalName, { type: blob.type }).  origin tells the File
\* objects of different downloads apart: the URL each was downloaded from.
MakeFile(blob, filename, defaultPrefix, now, origin) ==
  LET finalName == IF filename # <<>> THEN filename
                   ELSE Str(defaultPrefix) \o Str("_") \o Str(now) \o Extension(blob, filename)
  IN [name |-> finalName, type |-> blob.type, size |-> blob.size,
      text |-> blob.text, readable |-> blob.readable, origin |-> origin]

\* The catch of tryDownload: the attempt yields null.
TryDownloadCatch == Null

\* The catch of downloadFileFromUrl (rethrowing variant first).
OuterCatchRethrows == Threw
OuterCatch == Null

\* The guard of downloadFileFromUrl: TRUE when it returns null at once.
RejectsUrl(url) == url = <<>> \/ ~StartsWith(url, Str("http"))

\* tryDownload after response.blob() resolved: null, or the blob with its filename.
AfterBlob(blob, header) ==
  IF PayloadRejected(blob) THEN Null
  ELSE [blob |-> blob, filename |-> ExtractFilename(header)]


dlVars == <<dlPc, dlUrl, dlPrefix, dlAttempt, timeoutArmed, requests, disposition,
            attempts, dlResult>>

DlInit ==
  /\ dlPc = "idle" /\ dlUrl = "" /\ dlPrefix = "doc" /\ dlAttempt = 0
  /\ timeoutArmed = FALSE /\ requests = <<>> /\ disposition = NullString
  /\ attempts = <<>> /\ dlResult = Null

\* `https://<relay>/?${encodeURIComponent(url)}`
RelayRequest(n, url) == [relay |-> Relays[n], target |-> url]

\* if (!result): the second relay is tried (variant that always tries it first).
NeedsFallbackAlways(result) == TRUE
NeedsFallback(result) == result = Null

\* tryDownload up to its first await: the timer is set, the request leaves.
DlIssue(n) ==
  /\ dlPc' = "fetch"
  /\ dlAttempt' = n
  /\ timeoutArmed' = TRUE
  /\ requests' = Append(requests, RelayRequest(n, dlUrl'))
  /\ disposition' = NullString
  /\ UNCHANGED dlResult

\* downloadFileFromUrl returns (or throws) r.
DlReturn(r) ==
  /\ dlPc' = "done"
  /\ dlResult' = r
  /\ timeoutArmed' = FALSE
  /\ disposition' = NullString
  /\ UNCHANGED <<dlAttempt, requests>>

\* downloadFileFromUrl(url, defaultPrefix), to its first await or its return.
DlCall(url, prefix) ==
  /\ dlPc = "idle"
  /\ dlUrl' = url /\ dlPrefix' = prefix
  /\ attempts' = <<>>
  /\ IF RejectsUrl(Str(url)) THEN DlReturn(Null)
     ELSE IF ~CanEncode(Str(url)) THEN DlReturn(OuterCatch)
     ELSE DlIssue(1)

\* tryDownload returned res: the rest of downloadFileFromUrl, to its next await or return.
DlAttemptEnds(blob, res) ==
  /\ attempts' = Append(attempts, [blob |-> blob, result |-> res])
  /\ UNCHANGED <<dlUrl, dlPrefix>>
  /\ IF dlAttempt = 1 /\ NeedsFallback(res) THEN DlIssue(2)
     ELSE IF res = Null THEN DlReturn(Null)
     ELSE \E now \in NowValues : DlReturn(MakeFile(res.blob, res.filename, dlPrefix, now, Str(dlUrl)))

\* fetch rejects: the relay cannot be reached.
DlFetchRejects ==
  /\ dlPc = "fetch"
  /\ DlAttemptEnds(Null, TryDownloadCatch)

\* The 10 s timer fires: controller.abort() makes the pending fetch reject.
DlTimeout ==
  /\ dlPc = "fetch" /\ timeoutArmed
  /\ DlAttemptEnds(Null, TryDownloadCatch)

\* fetch resolves with the response headers: clearTimeout, then response.ok is read.
DlFetchResolves(ok, disp) ==
  /\ dlPc = "fetch"
  /\ IF ~ok THEN DlAttemptEnds(Null, Null)
     ELSE /\ dlPc' = "blob"
          /\ timeoutArmed' = FALSE
          /\ disposition' = disp
          /\ UNCHANGED <<dlUrl, dlPrefix, dlAttempt, requests, attempts, dlResult>>

\* response.blob() rejects: the body cannot be read.
DlBlobRejects ==
  /\ dlPc = "blob"
  /\ DlAttemptEnds(Null, TryDownloadCatch)

\* response.blob() resolves: the payload is checked and the filename taken.
DlBlobResolves(blob) ==
  /\ dlPc = "blob"
  /\ DlAttemptEnds(blob, AfterBlob(blob, disposition))

\* The caller drops the result and the function may be called again.
DlReset ==
  /\ dlPc = "done"
  /\ dlPc' = "idle" /\ dlUrl' = "" /\ dlPrefix' = "doc" /\ dlAttempt' = 0
  /\ timeoutArmed' = FALSE /\ requests' = <<>> /\ disposition' = NullString
  /\ attempts' = <<>> /\ dlResult' = Null

DlNext ==
  \/ dlPc = "idle" /\ \E url \in DownloadUrls, prefix \in Prefixes : DlCall(url, prefix)
  \/ DlFetchRejects
  \/ DlTimeout
  \/ dlPc = "fetch" /\ \E ok \in BOOLEAN, disp \in Dispositions : DlFetchResolves(ok, disp)
  \/ DlBlobRejects
  \/ dlPc = "blob" /\ \E blob \in Blobs : DlBlobResolves(blob)
  \/ DlReset

\* ------------------------------------------------------------------------
\* downloadFileFromUrl as a function of what the two relays answer, for the
\* callers that only await it.  A relay's answer: whether fetch resolved with
\* an OK response, the Content-Disposition header, and the body (Null when
\* response.blob() rejects).

tryDownload(resp) ==
  IF ~resp.ok THEN Null
  ELSE IF resp.blob = Null THEN TryDownloadCatch
  ELSE AfterBlob(resp.blob, resp.disposition)

downloadFileFromUrl(url, defaultPrefix, resp1, resp2, now) ==
  IF RejectsUrl(url) THEN Null
  ELSE IF ~CanEncode(url) THEN OuterCatch
  ELSE CHOOSE file \in
         {IF result = Null THEN Null
          ELSE MakeFile(result.blob, result.filename, defaultPrefix, now, url) :
            result \in {IF NeedsFallback(first) THEN tryDownload(resp2) ELSE first :
                          first \in {tryDownload(resp1)}}} : TRUE

\* ------------------------------------------------------------------------
\* probeAndDownloadLink and probeLinksInBatches.

\* The longest list of candidate links handed to the prober.
MaxLinks == 10
\* The longest list drawn from ShortUrls, with repetitions.
MaxShortLinks == 3

BATCH_SIZE == 4

\* Links are numbered; UrlText gives the text of each.  Those from 1 are
\* document links https://e.s/d1, https://e.s/d2, ...
MailtoUrl == 0
SocialUrl == 0 - 1
QueryUrl  == 0 - 2
MapsUrl   == 0 - 3
UrlText(u) ==
  IF u = MailtoUrl THEN Str("mailto:a@e.s")
  ELSE IF u = SocialUrl THEN Str("https://www.Facebook.com/e")
  ELSE IF u = QueryUrl THEN Str("https://e.s/?to=mailto:a")
  ELSE IF u = MapsUrl THEN Str("https://maps.e.s/m")
  ELSE Str("https://e.s/d") \o Digits(u)

ShortUrls == {1, 2, MailtoUrl, SocialUrl}

\* The link lists probeLinksInBatches is called with: n distinct document
\* links, and every short list over ShortUrls.
ProbeInputs ==
  {[k \in 1..n |-> k] : n \in 0..MaxLinks}
    \cup UNION {[1..n -> ShortUrls] : n \in 1..MaxShortLinks}

\* What the relays answer to a probe.
PdfBlob == [type |-> "application/pdf", size |-> 3000, text |-> "%PDF-1.4", readable |-> TRUE]
ProbeResponses ==
  {[ok |-> FALSE, disposition |-> NullString, blob |-> Null]}
    \cup {[ok |-> TRUE, disposition |-> d, blob |-> PdfBlob] :
            d \in {NullString, "attachment; filename=\"PCAP_2024.pdf\"",
                   "attachment; filename=Memoria_Técnica.pdf"}}

probeAndDownloadLink(url, resp1, resp2, now) ==
  IF ~isRelevantLink(url) THEN Null
  ELSE CHOOSE res \in
         {IF file # Null THEN [file |-> file, type |-> classifyFile(file)] ELSE Null :
            file \in {downloadFileFromUrl(url, "doc", resp1, resp2, now)}} : TRUE

\* Everything a probe of link u can resolve with, over the relays' answers
\* (tabulated once per link).
ProbeTab ==
  [u \in MapsUrl..MaxLinks |->
     [relevant |-> isRelevantLink(UrlText(u)),
      outcomes |-> {probeAndDownloadLink(UrlText(u), resp1, resp2, now) :
                      resp1 \in ProbeResponses, resp2 \in ProbeResponses,
                      now \in NowValues}]]
ProbeOutcomes(u) == ProbeTab[u].outcomes
IsRelevantUrl(u) == ProbeTab[u].relevant

\* Array.from(new Set(links)): the first occurrence of each link, in order.
\* (variant first: each link is kept where it occurs last)
DedupeLast(list) ==
  LET last == {k \in 1..Len(list) : \A m \in (k + 1)..Len(list) : list[m] # list[k]}
  IN [n \in 1..Cardinality(last) |->
        list[CHOOSE k \in last : Cardinality({m \in last : m < k}) = n - 1]]
\* (variant first: repeated links are kept)
DedupeNone(list) == list
Dedupe(list) ==
  LET first == {k \in 1..Len(list) : \A m \in 1..(k - 1) : list[m] # list[k]}
  IN [n \in 1..Cardinality(first) |->
        list[CHOOSE k \in first : Cardinality({m \in first : m < k}) = n - 1]]

\* seq.filter(isRelevantLink)
FilterRelevant(list) == SelectSeq(list, IsRelevantUrl)

UniqueLinks(list) == FilterRelevant(Dedupe(list))

\* uniqueLinks.slice(i, i + BATCH_SIZE), i counted from 0
\* (variant first: the slice takes two groups at once)
SliceWide(seq, j, n) ==
  SubSeq(seq, j + 1, IF j + 2 * n < Len(seq) THEN j + 2 * n ELSE Len(seq))
Slice(seq, j, n) ==
  SubSeq(seq, j + 1, IF j + n < Len(seq) THEN j + n ELSE Len(seq))

EmptyResults == [admin |-> Null, tech |-> Null]

\* if (results.admin && results.tech) break  (variant that never breaks first)
BothFilledNever(slots) == FALSE
\* (variant that breaks as soon as one slot is filled)
BothFilledEither(slots) == slots.admin # Null \/ slots.tech # Null
BothFilled(slots) == slots.admin # Null /\ slots.tech # Null

\* The body of "for (const res of batchResults)" for one res.
\* Variants first: an ADMIN file replaces the admin slot; an ADMIN file that
\* finds the admin slot taken goes to the tech slot; UNKNOWN prefers tech.
AssignResultOverwrites(slots, res) ==
  IF res # Null /\ res.file # Null THEN
    IF res.type = "ADMIN" THEN [slots EXCEPT !.admin = res.file]
    ELSE IF res.type = "TECH" /\ slots.tech = Null THEN [slots EXCEPT !.tech = res.file]
    ELSE IF res.type = "UNKNOWN" THEN
      IF slots.admin = Null THEN [slots EXCEPT !.admin = res.file]
      ELSE IF slots.tech = Null THEN [slots EXCEPT !.tech = res.file]
      ELSE slots
    ELSE slots
  ELSE slots
AssignResultSpills(slots, res) ==
  IF res # Null /\ res.file # Null THEN
    IF res.type = "ADMIN" /\ slots.admin = Null THEN [slots EXCEPT !.admin = res.file]
    ELSE IF res.type = "ADMIN" /\ slots.tech = Null THEN [slots EXCEPT !.tech = res.file]
    ELSE IF res.type = "TECH" /\ slots.tech = Null THEN [slots EXCEPT !.tech = res.file]
    ELSE IF res.type = "UNKNOWN" THEN
      IF slots.admin = Null THEN [slots EXCEPT !.admin = res.file]
      ELSE IF slots.tech = Null THEN [slots EXCEPT !.tech = res.file]
      ELSE slots
    ELSE slots
  ELSE slots
AssignResultTechFirst(slots, res) ==
  IF res # Null /\ res.file # Null THEN
    IF res.type = "ADMIN" /\ slots.admin = Null THEN [slots EXCEPT !.admin = res.file]
    ELSE IF res.type = "TECH" /\ slots.tech = Null THEN [slots EXCEPT !.tech = res.file]
    ELSE IF res.type = "UNKNOWN" THEN
      IF slots.tech = Null THEN [slots EXCEPT !.tech = res.file]
      ELSE IF slots.admin = Null THEN [slots EXCEPT !.admin = res.file]
      ELSE slots
    ELSE slots
  ELSE slots
AssignResult(slots, res) ==
  IF res # Null /\ res.file # Null THEN
    IF res.type = "ADMIN" /\ slots.admin = Null THEN [slots EXCEPT !.admin = res.file]
    ELSE IF res.type = "TECH" /\ slots.tech = Null THEN [slots EXCEPT !.tech = res.file]
    ELSE IF res.type = "UNKNOWN" THEN
      IF slots.admin = Null THEN [slots EXCEPT !.admin = res.file]
      ELSE IF slots.tech = Null THEN [slots EXCEPT !.tech = res.file]
      ELSE slots
    ELSE slots
  ELSE slots

\* results after the first k results of the batch went through the loop body
\* (variant first: a group with a failed probe contributes nothing)
FoldBatchAllOrNothing(slots, group, k) ==
  IF \E j \in 1..Len(group) : group[j] = Null THEN slots
  ELSE IF k = 0 THEN slots
  ELSE IF k = 1 THEN AssignResult(slots, group[1])
  ELSE IF k = 2 THEN AssignResult(AssignResult(slots, group[1]), group[2])
  ELSE IF k = 3 THEN AssignResult(AssignResult(AssignResult(slots, group[1]), group[2]), group[3])
  ELSE AssignResult(AssignResult(AssignResult(AssignResult(slots, group[1]), group[2]),
                                 group[3]), group[4])
\* (variant first: the results are taken from the last to the first)
RECURSIVE FoldBatchReversed(_, _, _)
FoldBatchReversed(slots, group, k) ==
  IF k = 0 THEN slots
  ELSE CHOOSE next \in {AssignResult(prev, group[Len(group) - k + 1]) :
                           prev \in {FoldBatchReversed(slots, group, k - 1)}} : TRUE
RECURSIVE FoldBatch(_, _, _)
FoldBatch(slots, group, k) ==
  IF k = 0 THEN slots
  ELSE CHOOSE next \in {AssignResult(prev, group[k]) :
                           prev \in {FoldBatch(slots, group, k - 1)}} : TRUE

\* how many iterations of the loop assigned to the slot
RECURSIVE SlotWrites(_, _, _, _)
SlotWrites(slots, group, k, slot) ==
  IF k = 0 THEN 0
  ELSE SlotWrites(slots, group, k - 1, slot)
       + (IF FoldBatch(slots, group, k)[slot]
             # FoldBatch(slots, group, k - 1)[slot] THEN 1 ELSE 0)

Min(a, b) == IF a < b THEN a ELSE b

\* onProgress(Math.min(processed, uniqueLinks.length), uniqueLinks.length)
\* (variant first: the size of the group is reported, not the running count)
ProgressReportPerGroup(done, total) == <<Min(BATCH_SIZE, total), total>>
ProgressReport(done, total) == <<Min(done, total), total>>


prVars == <<prPc, links, uniqueLinks, results, i, processed, batch, batchResults,
            progressCalls, probed, settled, slotWrites, returned>>

Pending == [pending |-> TRUE]

PrInit ==
  /\ prPc = "idle" /\ links = <<>> /\ uniqueLinks = <<>> /\ results = EmptyResults
  /\ i = 0 /\ processed = 0 /\ batch = <<>> /\ batchResults = <<>>
  /\ progressCalls = <<>> /\ probed = <<>> /\ settled = <<>>
  /\ slotWrites = [admin |-> 0, tech |-> 0] /\ returned = Null

\* probeLinksInBatches(links, onProgress), to the first loop test.
PrCall(L) ==
  /\ prPc = "idle"
  /\ prPc' = "loop"
  /\ links' = L
  /\ uniqueLinks' = UniqueLinks(L)
  /\ results' = EmptyResults
  /\ i' = 0 /\ processed' = 0
  /\ settled' = [k \in 1..Len(uniqueLinks') |-> "-"]
  /\ UNCHANGED <<batch, batchResults, progressCalls, probed, slotWrites, returned>>

\* The loop goes on: the next group is sliced and every probe of it started.
PrIssueGroup ==
  /\ prPc = "loop"
  /\ i < Len(uniqueLinks) /\ ~BothFilled(results)
  /\ prPc' = "await"
  /\ batch' = Slice(uniqueLinks, i, BATCH_SIZE)
  /\ batchResults' = [k \in 1..Len(batch') |-> Pending]
  /\ probed' = probed \o batch'
  /\ UNCHANGED <<links, uniqueLinks, results, i, processed, progressCalls, settled,
                 slotWrites, returned>>

\* The probe of one link of the group resolves.
PrSettle(k) ==
  /\ prPc = "await"
  /\ k \in 1..Len(batch) /\ batchResults[k] = Pending
  /\ \E res \in ProbeOutcomes(batch[k]) :
       /\ batchResults' = [batchResults EXCEPT ![k] = res]
       /\ settled' = [settled EXCEPT ![i + k] = IF res = Null THEN "null" ELSE res.type]
  /\ UNCHANGED <<prPc, links, uniqueLinks, results, i, processed, batch, progressCalls,
                 probed, slotWrites, returned>>

\* Promise.all resolves: the results are folded into the slots, progress is
\* reported and the loop index advances.
PrJoin ==
  /\ prPc = "await"
  /\ \A k \in 1..Len(batch) : batchResults[k] # Pending
  /\ prPc' = "loop"
  /\ results' = FoldBatch(results, batchResults, Len(batchResults))
  /\ slotWrites' =
       [slot \in {"admin", "tech"} |->
          slotWrites[slot] + SlotWrites(results, batchResults, Len(batchResults), slot)]
  /\ processed' = processed + Len(batch)
  /\ progressCalls' = Append(progressCalls, ProgressReport(processed', Len(uniqueLinks)))
  /\ i' = i + BATCH_SIZE
  /\ batch' = <<>> /\ batchResults' = <<>>
  /\ UNCHANGED <<links, uniqueLinks, probed, settled, returned>>

\* The loop ends (by its test or by the break) and the slots are returned.
PrReturn ==
  /\ prPc = "loop"
  /\ i >= Len(uniqueLinks) \/ BothFilled(results)
  /\ prPc' = "done"
  /\ returned' = results
  /\ UNCHANGED <<links, uniqueLinks, results, i, processed, batch, batchResults,
                 progressCalls, probed, settled, slotWrites>>

\* The caller has taken the result; the prober may be called again.
PrReset ==
  /\ prPc = "done"
  /\ prPc' = "idle" /\ links' = <<>> /\ uniqueLinks' = <<>> /\ results' = EmptyResults
  /\ i' = 0 /\ processed' = 0 /\ batch' = <<>> /\ batchResults' = <<>>
  /\ progressCalls' = <<>> /\ probed' = <<>> /\ settled' = <<>>
  /\ slotWrites' = [admin |-> 0, tech |-> 0] /\ returned' = Null

PrNext ==
  \/ prPc = "idle" /\ \E L \in ProbeInputs : PrCall(L)
  \/ PrIssueGroup
  \/ prPc = "await" /\ \E k \in 1..Len(batch) : PrSettle(k)
  \/ PrJoin
  \/ PrReturn
  \/ PrReset

\* ------------------------------------------------------------------------
\* scrapeDocsFromWeb(pageUrl): the anchors of the tender page, scanned for the
\* two documents.

\* The longest page, in anchors.
MaxAnchors == 3

\* The page addresses the argument is drawn from, and those among them that
\* pass the guard of the call.
HttpPageUrl == "http://e.s/t/page"
PageUrls == {HttpPageUrl, "httpx://e.s/t/page", "e.s/t/page", ""}
FetchedPageUrls == {url \in PageUrls : url # "" /\ StartsWith(Str(url), Str("http"))}

\* The anchors a page is made of.  href is NullString for an anchor without
\* the attribute; title, aria-label, id and class are absent on all of them.
AnchorPool ==
  { [href |-> NullString,             text |-> "PCAP"],
    [href |-> "",                     text |-> "PCAP"],
    [href |-> "#",                    text |-> "Memoria Técnica"],
    [href |-> "/",                    text |-> "Anexo I"],
    [href |-> "javascript:void(0)",   text |-> "PPT"],
    [href |-> "docs/pcap.pdf",        text |-> "Pliego"],
    [href |-> "http://e.s/a.pdf",     text |-> "Descargar"],
    [href |-> "http://e.s/b.PDF",     text |-> "Descargar"],
    [href |-> "http://e.s/d.pdf",     text |-> "Ver"],
    [href |-> "http://e.s/m.pdf",     text |-> "Memoria Técnica"],
    [href |-> "http://e.s/info",      text |-> "Cláusulas administrativas"],
    [href |-> "http://e.s/x.zip",     text |-> "PCAP y PPT"],
    [href |-> "http://e.s/c.pdf?v=1", text |-> "Ver"] }

Pages == UNION {[1..n -> AnchorPool] : n \in 0..MaxAnchors}

\* link.getAttribute(a) || ""
OrEmpty(attr) == IF attr = NullString THEN <<>> ELSE Str(attr)

\* if (!href || href.startsWith('javascript') || href === '#' || href === '/') continue
\* (Variant first: only an anchor without the attribute counts as having no href.)
SkipsAnchorAbsentOnly(href) ==
  \/ href = NullString
  \/ StartsWith(Str(href), Str("javascript"))
  \/ href = "#" \/ href = "/"
SkipsAnchor(href) ==
  \/ href = NullString \/ href = ""
  \/ StartsWith(Str(href), Str("javascript"))
  \/ href = "#" \/ href = "/"

\* Where new URL(href, pageUrl) lands for a path relative to the page: the
\* page's directory followed by the path; an empty reference is the page.
PageDirectory(page) ==
  LET cuts == {k \in 1..Len(page) : page[k] = "/"} IN
    SubSeq(page, 1, CHOOSE k \in cuts : \A m \in cuts : m <= k)

resolveUrl(href, page) ==
  IF StartsWith(href, Str("http")) THEN href
  ELSE IF href = <<>> THEN page
  ELSE PageDirectory(page) \o href

\* normalizeText(`${text} ${title} ${ariaLabel} ${id} ${className} ${href}`)
CombinedText(anchor) ==
  normalizeText(OrEmpty(anchor.text) \o Str(" ") \o <<>> \o Str(" ") \o <<>> \o Str(" ")
                  \o <<>> \o Str(" ") \o <<>> \o Str(" ") \o OrEmpty(anchor.href))

ScrapeAdminKeywords == {"pcap", "clausulas", "administrativ", "caratula", "bases", "anexo"}
ScrapeTechKeywords == {"ppt", "prescripciones", "tecnic", "memoria", "proyecto"}

isAdmin(combinedText) == \E kw \in ScrapeAdminKeywords : Includes(combinedText, Str(kw))
isTech(combinedText) == \E kw \in ScrapeTechKeywords : Includes(combinedText, Str(kw))
isFile(fullUrl) ==
  \/ EndsWith(ToLowerCase(fullUrl), Str(".pdf"))
  \/ EndsWith(ToLowerCase(fullUrl), Str(".zip"))

\* What the loop body computes for each anchor of the pool, on the page at
\* each address.
AnchorFacts ==
  [url \in FetchedPageUrls, a \in AnchorPool |->
     IF SkipsAnchor(a.href) THEN [skipped |-> TRUE]
     ELSE LET fullUrl == resolveUrl(Str(a.href), Str(url))
              combinedText == CombinedText(a)
          IN [skipped |-> FALSE, fullUrl |-> fullUrl,
              isAdmin |-> isAdmin(combinedText), isTech |-> isTech(combinedText),
              isFile |-> isFile(fullUrl)]]

ScInit ==
  /\ scPc = "idle" /\ pageUrl = "" /\ anchors = <<>> /\ scIndex = 0
  /\ scAdminUrl = Null /\ scTechUrl = Null /\ potentialPdfs = <<>> /\ scResult = Null

\* A string held by a variable that may also be undefined (Null).
Defined(str) == [value |-> str]

EmptyScrape == [none |-> TRUE]

\* catch (error) { ...; return {}; } with adminUrl and techUrl as the scan
\* left them (variant first: the catch returns what was recorded).
ScrapeCatchKeeps(admin, tech) == [adminUrl |-> admin, techUrl |-> tech]
ScrapeCatch(admin, tech) == EmptyScrape
ScrapeResult(admin, tech) == [adminUrl |-> admin, techUrl |-> tech]

\* scrapeDocsFromWeb(pageUrl), to the fetch of the page through the relay.
ScCall(url) ==
  /\ scPc = "idle"
  /\ pageUrl' = url
  /\ IF url \notin FetchedPageUrls
     THEN scPc' = "done" /\ scResult' = EmptyScrape
     ELSE scPc' = "fetch" /\ scResult' = Null
  /\ UNCHANGED <<anchors, scIndex, scAdminUrl, scTechUrl, potentialPdfs>>

\* fetch rejects, the response is not ok, or response.text() rejects: the
\* catch returns {}.
ScFetchFails ==
  /\ scPc = "fetch"
  /\ scPc' = "done" /\ scResult' = ScrapeCatch(scAdminUrl, scTechUrl)
  /\ UNCHANGED <<pageUrl, anchors, scIndex, scAdminUrl, scTechUrl, potentialPdfs>>

\* An exception thrown while an anchor is scanned: the same catch.
ScScanFails ==
  /\ scPc = "loop" /\ scIndex < Len(anchors)
  /\ scPc' = "done" /\ scResult' = ScrapeCatch(scAdminUrl, scTechUrl)
  /\ UNCHANGED <<pageUrl, anchors, scIndex, scAdminUrl, scTechUrl, potentialPdfs>>

\* The page arrived and was parsed into its anchors.
ScParsed(page) ==
  /\ scPc = "fetch"
  /\ scPc' = "loop" /\ anchors' = page /\ scIndex' = 0
  /\ scAdminUrl' = Null /\ scTechUrl' = Null /\ potentialPdfs' = <<>>
  /\ UNCHANGED <<pageUrl, scResult>>

\* One turn of "for (const link of links)".
ScVisit ==
  /\ scPc = "loop" /\ scIndex < Len(anchors)
  /\ scIndex' = scIndex + 1
  /\ LET facts == AnchorFacts[pageUrl, anchors[scIndex + 1]] IN
       IF facts.skipped
       THEN UNCHANGED <<scAdminUrl, scTechUrl, potentialPdfs>>
       ELSE /\ potentialPdfs' = IF facts.isFile THEN Append(potentialPdfs, facts.fullUrl)
                                ELSE potentialPdfs
            /\ scAdminUrl' = IF scAdminUrl = Null /\ facts.isAdmin THEN Defined(facts.fullUrl)
                             ELSE scAdminUrl
            /\ scTechUrl' = IF scTechUrl = Null /\ facts.isTech THEN Defined(facts.fullUrl)
                            ELSE scTechUrl
  /\ UNCHANGED <<scPc, pageUrl, anchors, scResult>>

\* After the loop: the positional backfill, and the return.
ScReturn ==
  /\ scPc = "loop" /\ scIndex = Len(anchors)
  /\ scPc' = "done"
  /\ LET admin == IF Len(potentialPdfs) > 0 /\ scAdminUrl = Null
                  THEN Defined(potentialPdfs[1]) ELSE scAdminUrl
         tech  == IF Len(potentialPdfs) > 0 /\ scTechUrl = Null /\ Len(potentialPdfs) > 1
                  THEN Defined(potentialPdfs[2]) ELSE scTechUrl
     IN /\ scAdminUrl' = admin /\ scTechUrl' = tech
        /\ scResult' = ScrapeResult(admin, tech)
  /\ UNCHANGED <<pageUrl, anchors, scIndex, potentialPdfs>>

\* The caller has taken the result; the scraper may be called again.
ScReset ==
  /\ scPc = "done"
  /\ scPc' = "idle" /\ pageUrl' = "" /\ anchors' = <<>> /\ scIndex' = 0
  /\ scAdminUrl' = Null /\ scTechUrl' = Null /\ potentialPdfs' = <<>> /\ scResult' = Null

scVars == <<scPc, pageUrl, anchors, scIndex, scAdminUrl, scTechUrl, potentialPdfs, scResult>>

ScNext ==
  \/ scPc = "idle" /\ \E url \in PageUrls : ScCall(url)
  \/ ScFetchFails
  \/ scPc = "fetch" /\ \E page \in Pages : ScParsed(page)
  \/ ScVisit
  \/ ScScanFails
  \/ ScReturn
  \/ ScReset

\* ------------------------------------------------------------------------
\* The App component: the tender list and handleAnalyze.

\* The dismiss timers that can be pending at once, and the ids of the
\* tenders the form can hand over.
MaxTimers == 1

TenderIds == {"t1", "t2"}

\* enum TenderStatus
TenderStatuses == {"PENDING", "IN_PROGRESS", "IN_DOUBT", "REJECTED", "ARCHIVED"}

\* What the analysis service can answer: a report with its decision, or a
\* failure.
Decisions == {"KEEP", "DISCARD", "REVIEW", "MAYBE"}
ServiceFailures == {"rejected", "no text", "malformed text"}

ApiKeyError == "API KEY no encontrada. Asegúrate de configurar la variable de entorno."
AnalyzeError == "Error al analizar el pliego. Inténtalo de nuevo."

\* The TenderDocument handleSubmit builds from the fields f of the form at
\* the time now (aiAnalysis is absent at first).
NewTender(id, f, now) ==
  [id |-> id, name |-> f.name, budget |-> f.budget, scoringSystem |-> f.scoringSystem,
   tenderPageUrl |-> f.tenderPageUrl, adminUrl |-> f.adminUrl, adminFile |-> f.adminFile,
   techUrl |-> f.techUrl, techFile |-> f.techFile, summaryFile |-> f.summaryFile,
   status |-> "PENDING", createdAt |-> now, aiAnalysis |-> Null]

\* The tenders the form hands over in the runs of the App alone: the second
\* one comes with its page address and its administrative document.
PlainFields(id) ==
  [name |-> "Obra", budget |-> "100000 EUR", scoringSystem |-> "Precio 60",
   tenderPageUrl |-> IF id = "t2" THEN "https://contratacion.e.s/t" ELSE "",
   adminUrl |-> IF id = "t2" THEN "https://e.s/pcap.pdf" ELSE "",
   adminFile |-> IF id = "t2" THEN [origin |-> "download"] ELSE Null,
   techUrl |-> "", techFile |-> Null, summaryFile |-> Null]
PlainTender(id) == NewTender(id, PlainFields(id), "1730000000000")

\* setTenders((prev) => [newTender, ...prev])
AddTender(list, newTender) == <<newTender>> \o list

AppInit ==
  /\ tenders = <<>> /\ analyzingIds = {} /\ selectedTender = Null /\ error = Null
  /\ apiKey \in BOOLEAN
  /\ analyses = [id \in TenderIds |-> Null]
  /\ dismissTimers = 0
  /\ analysisEnded = Null

\* prev.map(t => t.id === id ? replacement : t)
\* (variant first: every record is replaced)
MapTenderAll(list, id, replacement) == [k \in 1..Len(list) |-> replacement]
MapTender(list, id, replacement) ==
  [k \in 1..Len(list) |-> IF list[k].id = id THEN replacement ELSE list[k]]

\* prev.map(t => t.id === tenderId ? { ...t, status: newStatus } : t)
MapStatus(list, id, newStatus) ==
  [k \in 1..Len(list) |->
     IF list[k].id = id THEN [list[k] EXCEPT !.status = newStatus] ELSE list[k]]

\* The finally block of handleAnalyze
\* (variant first: the id stays in the set).
FinallyIdsKept(ids, id) == ids
FinallyIds(ids, id) == ids \ {id}

\* handleAddTender(newTender)
HandleAddTender(id) ==
  /\ \A k \in 1..Len(tenders) : tenders[k].id # id
  /\ tenders' = AddTender(tenders, PlainTender(id))
  /\ analysisEnded' = Null
  /\ UNCHANGED <<analyzingIds, selectedTender, error, apiKey, analyses, dismissTimers>>

\* handleStatusChange(tenderId, newStatus), called by the detail view for
\* the tender it shows.
HandleStatusChange(newStatus) ==
  /\ selectedTender # Null
  /\ selectedTender.status # newStatus
  /\ tenders' = MapStatus(tenders, selectedTender.id, newStatus)
  /\ selectedTender' = [selectedTender EXCEPT !.status = newStatus]
  /\ analysisEnded' = Null
  /\ UNCHANGED <<analyzingIds, error, apiKey, analyses, dismissTimers>>

\* onOpenDetail={setSelectedTender}, and closing the detail view
OpenDetail(k) ==
  /\ k \in 1..Len(tenders) /\ selectedTender = Null
  /\ selectedTender' = tenders[k]
  /\ analysisEnded' = Null
  /\ UNCHANGED <<tenders, analyzingIds, error, apiKey, analyses, dismissTimers>>

CloseDetail ==
  /\ selectedTender # Null
  /\ selectedTender' = Null
  /\ analysisEnded' = Null
  /\ UNCHANGED <<tenders, analyzingIds, error, apiKey, analyses, dismissTimers>>

\* handleAnalyze(tender), clicked on the card of a pending tender that is
\* not being analysed, up to the await of the service.
HandleAnalyze(k) ==
  /\ k \in 1..Len(tenders)
  /\ tenders[k].status = "PENDING" /\ tenders[k].id \notin analyzingIds
  /\ analyses[tenders[k].id] = Null
  /\ IF ~apiKey
     THEN /\ dismissTimers < MaxTimers
          /\ error' = Defined(ApiKeyError) /\ dismissTimers' = dismissTimers + 1
          /\ UNCHANGED <<analyzingIds, analyses>>
     ELSE /\ analyzingIds' = analyzingIds \cup {tenders[k].id}
          /\ analyses' = [analyses EXCEPT ![tenders[k].id] =
                            [tender |-> tenders[k],
                             \* selectedTender?.id === tender.id, as this render sees it
                             selected |-> selectedTender # Null
                                            /\ selectedTender.id = tenders[k].id]]
          /\ UNCHANGED <<error, dismissTimers>>
  /\ analysisEnded' = Null
  /\ UNCHANGED <<tenders, selectedTender, apiKey>>

\* let newStatus = PENDING; if (decision === 'KEEP') ... else if ...
\* (variant first: a report asking for review archives the tender)
StatusForArchives(decision) ==
  CASE decision = "KEEP" -> "IN_PROGRESS"
    [] decision = "DISCARD" -> "REJECTED"
    [] decision = "REVIEW" -> "ARCHIVED"
    [] OTHER -> "PENDING"
StatusFor(decision) ==
  CASE decision = "KEEP" -> "IN_PROGRESS"
    [] decision = "DISCARD" -> "REJECTED"
    [] decision = "REVIEW" -> "IN_DOUBT"
    [] OTHER -> "PENDING"

\* analyzeTenderWithGemini resolved with a report: the try block after the
\* await, then the finally block.
AnalysisResolves(id, decision) ==
  /\ analyses[id] # Null
  /\ LET call == analyses[id]
         newStatus == StatusFor(decision)
         updatedTender == [call.tender EXCEPT !.status = newStatus, !.aiAnalysis = [decision |-> decision]]
     IN /\ tenders' = MapTender(tenders, id, updatedTender)
        /\ selectedTender' =
             IF call.selected THEN updatedTender ELSE selectedTender
  /\ analyzingIds' = FinallyIds(analyzingIds, id)
  /\ analyses' = [analyses EXCEPT ![id] = Null]
  /\ analysisEnded' = [id |-> id, how |-> "resolved"]
  /\ UNCHANGED <<error, apiKey, dismissTimers>>

\* analyzeTenderWithGemini threw (the request rejected, the response had no
\* text, or JSON.parse rejected the text): the catch block, then the finally.
AnalysisFails(id, failure) ==
  /\ analyses[id] # Null
  /\ dismissTimers < MaxTimers
  /\ error' = Defined(AnalyzeError) /\ dismissTimers' = dismissTimers + 1
  /\ analyzingIds' = FinallyIds(analyzingIds, id)
  /\ analyses' = [analyses EXCEPT ![id] = Null]
  /\ analysisEnded' = [id |-> id, how |-> failure]
  /\ UNCHANGED <<tenders, selectedTender, apiKey>>

\* A setTimeout(() => setError(null), 5000) callback runs.
DismissError ==
  /\ dismissTimers > 0
  /\ dismissTimers' = dismissTimers - 1
  /\ error' = Null
  /\ analysisEnded' = Null
  /\ UNCHANGED <<tenders, analyzingIds, selectedTender, apiKey, analyses>>

appVars == <<tenders, analyzingIds, selectedTender, error, apiKey, analyses, dismissTimers,
             analysisEnded>>

AppNext ==
  \/ \E id \in TenderIds : HandleAddTender(id)
  \/ \E newStatus \in TenderStatuses : HandleStatusChange(newStatus)
  \/ \E k \in 1..Len(tenders) : OpenDetail(k)
  \/ CloseDetail
  \/ \E k \in 1..Len(tenders) : HandleAnalyze(k)
  \/ \E id \in TenderIds : \E decision \in Decisions : AnalysisResolves(id, decision)
  \/ \E id \in TenderIds : \E failure \in ServiceFailures : AnalysisFails(id, failure)
  \/ DismissError

\* ------------------------------------------------------------------------
\* The NewTenderForm component: the form, the summary upload (handleFile),
\* the manual scan (handleManualScrape) and handleSubmit.

\* The calls that can be awaiting at once, and the tenders the form hands over.
MaxRuns == 1
\* The calls that can be awaiting at once where the summary is uploaded anew.
MaxOverlap == 2
MaxSubmissions == 1

Names == {"", "Obra"}
PageAddresses == {"", "https://contratacion.e.s/t"}

\* Files, by where they come from: chosen by the user, or downloaded.
UserFile == [origin |-> "user"]
FetchedFile == [origin |-> "download"]

NoError == [show |-> FALSE, msg |-> ""]
ShowError(msg) == [show |-> TRUE, msg |-> msg]

\* The state of the component after mounting.
InitialForm ==
  [isOpen |-> FALSE, name |-> "", budget |-> "", scoringSystem |-> "",
   tenderPageUrl |-> "", adminUrl |-> "",
   adminFile |-> Null, techUrl |-> "", techFile |-> Null, summaryFile |-> Null,
   isExtracting |-> FALSE, downloadError |-> NoError]

\* resetForm(): every field but isOpen and isExtracting
resetForm(f) ==
  [InitialForm EXCEPT !.isOpen = f.isOpen, !.isExtracting = f.isExtracting]

\* What the services answer.
\* extractMetadataFromTenderFile: the data (name, budget, scoringSystem and
\* tenderPageUrl, possibly empty; a sheet that states its budget states its
\* scoring too), or a rejection.
Budgets == {"", "100000 EUR"}
MetadataResults ==
  {[name |-> n, budget |-> b, scoringSystem |-> IF b = "" THEN "" ELSE "Precio 60",
    tenderPageUrl |-> a] : n \in Names, b \in Budgets, a \in PageAddresses}

\* The then-callback of extractMetadataFromTenderFile: the texts that were
\* read go to the form.
FillMetadata(f, data) ==
  [f EXCEPT !.name = IF data.name # "" THEN data.name ELSE @,
            !.budget = IF data.budget # "" THEN data.budget ELSE @,
            !.scoringSystem = IF data.scoringSystem # "" THEN data.scoringSystem ELSE @]
\* extractLinksFromPdf: no link (also on failure), links to documents only,
\* or links among which one holds 'contratacion'.
PdfLinkLists == {"none", "documents", "with portal"}
PortalLink == "https://contratacion.e.s/t"
\* probeLinksInBatches: the two slots
ProbeResults == [admin : {Null, FetchedFile}, tech : {Null, FetchedFile}]
\* scrapeDocsFromWeb: { adminUrl?, techUrl? }, {} on failure
ScrapeResults == [adminUrl : {"", "https://e.s/pcap.pdf"}, techUrl : {"", "https://e.s/ppt.pdf"}]
\* downloadFileFromUrl: a file or null
DownloadResults == {Null, FetchedFile}
\* An awaited call that rejects although its code catches every error.
Rejects == [rejects |-> TRUE]

FormInit ==
  /\ form = InitialForm /\ runs = <<>> /\ submissions = 0 /\ formTrace = Null

\* The finally blocks of handleManualScrape and handleFile
\* (variant first: isExtracting is left as it is).
FinallyExtractingKept(f) == f
FinallyExtracting(f) == [f EXCEPT !.isExtracting = FALSE]

\* A new call: its kind, where it waits, the adminFile and techFile its
\* closure sees, what handleFile awaits first (of the metadata only the
\* tenderPageUrl is read later), and the locals of processUrlForDocs.
NewRun(kind, pc, closureAdmin, closureTech) ==
  [kind |-> kind, pc |-> pc, adminFile |-> closureAdmin, techFile |-> closureTech,
   metadata |-> Pending, pdfLinks |-> Pending,
   newAdminFile |-> Null, newTechFile |-> Null,
   finalAdminUrl |-> "", finalTechUrl |-> "", downloadCount |-> 0]

\* The locals of handleFile are read no more once processUrlForDocs runs.
InDocs(run) ==
  [run EXCEPT !.adminFile = Null, !.techFile = Null,
              !.metadata = Pending, !.pdfLinks = Pending]

RemoveAt(seq, r) == SubSeq(seq, 1, r - 1) \o SubSeq(seq, r + 1, Len(seq))

RunEnds(kind, how) == [step |-> "run ends", kind |-> kind, how |-> how]

\* The run r goes on as `next` says: to its next await, or to its end.
Proceed(r, next) ==
  /\ form' = next.form
  /\ IF next.ended
     THEN /\ runs' = RemoveAt(runs, r)
          /\ formTrace' = RunEnds(runs[r].kind, next.how)
     ELSE /\ runs' = [runs EXCEPT ![r] = next.run]
          /\ formTrace' = Null
  /\ UNCHANGED <<submissions, tenders>>

Awaiting(f, run) == [form |-> f, ended |-> FALSE, run |-> run, how |-> "-"]
Ended(f, how) == [form |-> f, ended |-> TRUE, run |-> Null, how |-> how]

\* processUrlForDocs returned to its caller: the caller stores the files it
\* got, handleManualScrape reports a scan without result, and the finally
\* block runs.
ReturnToCaller(f, run, scrapeSuccess) ==
  LET f1 == IF run.newAdminFile # Null THEN [f EXCEPT !.adminFile = run.newAdminFile] ELSE f
      f2 == IF run.newTechFile # Null THEN [f1 EXCEPT !.techFile = run.newTechFile] ELSE f1
      f3 == IF /\ run.kind = "manual"
               /\ run.newAdminFile = Null /\ run.newTechFile = Null /\ ~scrapeSuccess
            THEN [f2 EXCEPT !.downloadError = ShowError("No se encontraron documentos.")]
            ELSE f2
  IN Ended(FinallyExtracting(f3), "returned")

\* processUrlForDocs from "if (downloadCount > 0 || ...)" to its return
FinishDocs(f, run) ==
  LET found == run.finalAdminUrl # "" \/ run.finalTechUrl # ""
      scrapeSuccess == run.downloadCount > 0 \/ found
      f1 == IF found /\ run.downloadCount = 0
            THEN [f EXCEPT !.downloadError = ShowError("Bloqueo anti-robot. Descarga manual.")]
            ELSE f
  IN ReturnToCaller(f1, run, scrapeSuccess)

\* The catch block of processUrlForDocs, and its return
CatchDocs(f, run) == ReturnToCaller(f, run, FALSE)

\* processUrlForDocs from "if (finalTechUrl)"
TechStage(f, run) ==
  IF run.finalTechUrl # ""
  THEN LET f1 == [f EXCEPT !.techUrl = run.finalTechUrl] IN
       IF run.newTechFile = Null THEN Awaiting(f1, [run EXCEPT !.pc = "download tech"])
       ELSE FinishDocs(f1, run)
  ELSE FinishDocs(f, run)

\* processUrlForDocs(url, currentAdminFile, currentTechFile) up to the await
\* of scrapeDocsFromWeb; with an empty url it returns at once.
StartDocs(f, run, url, currentAdminFile, currentTechFile) ==
  LET run1 == [run EXCEPT !.newAdminFile = currentAdminFile, !.newTechFile = currentTechFile]
  IN IF url = "" THEN ReturnToCaller(f, run1, FALSE)
     ELSE Awaiting(f, [InDocs(run1) EXCEPT !.pc = "scrape"])

\* a || b over files
OrFile(a, b) == IF a # Null THEN a ELSE b

\* handleFile from "if (foundAdmin) setAdminFile(foundAdmin)" on
\* (variant first: the page is scanned whenever its address is known).
AfterProbeAlways(f, run, foundAdmin, foundTech) ==
  LET f1 == IF foundAdmin # Null THEN [f EXCEPT !.adminFile = foundAdmin] ELSE f
      f2 == IF foundTech # Null THEN [f1 EXCEPT !.techFile = foundTech] ELSE f1
      currentUrl == IF run.metadata.tenderPageUrl # "" THEN run.metadata.tenderPageUrl
                    ELSE IF run.pdfLinks.links = "with portal" THEN PortalLink ELSE ""
      f3 == IF currentUrl # "" THEN [f2 EXCEPT !.tenderPageUrl = currentUrl] ELSE f2
  IN IF currentUrl # ""
     THEN StartDocs(f3, run, currentUrl,
                    OrFile(foundAdmin, run.adminFile), OrFile(foundTech, run.techFile))
     ELSE Ended(FinallyExtracting(f3), "completed")
AfterProbe(f, run, foundAdmin, foundTech) ==
  LET f1 == IF foundAdmin # Null THEN [f EXCEPT !.adminFile = foundAdmin] ELSE f
      f2 == IF foundTech # Null THEN [f1 EXCEPT !.techFile = foundTech] ELSE f1
      currentUrl == IF run.metadata.tenderPageUrl # "" THEN run.metadata.tenderPageUrl
                    ELSE IF run.pdfLinks.links = "with portal" THEN PortalLink ELSE ""
      f3 == IF currentUrl # "" THEN [f2 EXCEPT !.tenderPageUrl = currentUrl] ELSE f2
  IN IF currentUrl # "" /\ (foundAdmin = Null \/ foundTech = Null)
     THEN StartDocs(f3, run, currentUrl,
                    OrFile(foundAdmin, run.adminFile), OrFile(foundTech, run.techFile))
     ELSE Ended(FinallyExtracting(f3), "completed")

\* The catch block of handleFile, and its finally
CatchFile(f) ==
  Ended(FinallyExtracting([f EXCEPT !.downloadError = ShowError("Error en el análisis.")]),
        "caught")

\* --- what the user does with the form

\* (the form is opened while a tender can still be handed over: after the
\* last submission the calls that are awaiting complete and nothing else)
OpenForm ==
  /\ ~form.isOpen /\ submissions < MaxSubmissions
  /\ form' = [form EXCEPT !.isOpen = TRUE]
  /\ formTrace' = Null
  /\ UNCHANGED <<runs, submissions, tenders>>

\* onClick={() => { setIsOpen(false); resetForm(); }}
CloseForm ==
  /\ form.isOpen
  /\ form' = resetForm([form EXCEPT !.isOpen = FALSE])
  /\ formTrace' = Null
  /\ UNCHANGED <<runs, submissions, tenders>>

\* onChange={(e) => setName(e.target.value)}
TypeName(n) ==
  /\ form.isOpen /\ form.name # n
  /\ form' = [form EXCEPT !.name = n]
  /\ formTrace' = Null
  /\ UNCHANGED <<runs, submissions, tenders>>

\* onChange={(e) => setTenderPageUrl(e.target.value)}
TypeTenderPageUrl(u) ==
  /\ form.isOpen /\ form.tenderPageUrl # u
  /\ form' = [form EXCEPT !.tenderPageUrl = u]
  /\ formTrace' = Null
  /\ UNCHANGED <<runs, submissions, tenders>>

\* handleFile(file, 'admin') and handleFile(file, 'tech'), on an empty zone
HandleFileDocument(type) ==
  /\ form.isOpen
  /\ \/ type = "admin" /\ form.adminFile = Null /\ form' = [form EXCEPT !.adminFile = UserFile]
     \/ type = "tech" /\ form.techFile = Null /\ form' = [form EXCEPT !.techFile = UserFile]
  /\ formTrace' = Null
  /\ UNCHANGED <<runs, submissions, tenders>>

\* The bin button of a zone that holds a file
RemoveFile(type) ==
  /\ form.isOpen
  /\ \/ type = "summary" /\ form.summaryFile # Null /\ form' = [form EXCEPT !.summaryFile = Null]
     \/ type = "admin" /\ form.adminFile # Null /\ form' = [form EXCEPT !.adminFile = Null]
     \/ type = "tech" /\ form.techFile # Null /\ form' = [form EXCEPT !.techFile = Null]
  /\ formTrace' = Null
  /\ UNCHANGED <<runs, submissions, tenders>>

\* handleFile(file, 'summary') up to the await of Promise.all.  Called from
\* the file input it sees the adminFile and techFile of this render; called
\* from handleDrop (useCallback with no dependencies) those of the first.
HandleFileSummary(via) ==
  /\ form.isOpen /\ form.summaryFile = Null
  /\ form' = [form EXCEPT !.summaryFile = UserFile, !.isExtracting = TRUE,
                          !.downloadError = NoError]
  /\ runs' = Append(runs,
                    IF via = "input" THEN NewRun("file", "extract", form.adminFile, form.techFile)
                    ELSE NewRun("file", "extract", InitialForm.adminFile, InitialForm.techFile))
  /\ formTrace' = Null
  /\ UNCHANGED <<submissions, tenders>>

\* handleManualScrape(), its button being shown, up to the await in
\* processUrlForDocs.
HandleManualScrape ==
  /\ form.isOpen /\ form.tenderPageUrl # "" /\ ~form.isExtracting
  /\ LET f1 == [form EXCEPT !.isExtracting = TRUE, !.downloadError = NoError]
         next == StartDocs(f1, NewRun("manual", "start", form.adminFile, form.techFile),
                           form.tenderPageUrl, form.adminFile, form.techFile)
     IN /\ form' = next.form
        /\ runs' = Append(runs, next.run)
  /\ formTrace' = Null
  /\ UNCHANGED <<submissions, tenders>>

\* crypto.randomUUID(): an id no tender of the list has
FreshId(list) == CHOOSE id \in TenderIds : \A k \in 1..Len(list) : list[k].id # id

\* handleSubmit(e) with a name (without one it returns at once): the tender
\* goes to onAddTender, that is handleAddTender of the App.
HandleSubmit(id) ==
  /\ form.isOpen /\ form.name # ""
  /\ submissions < MaxSubmissions
  /\ id = FreshId(tenders)
  /\ \E now \in NowValues : tenders' = AddTender(tenders, NewTender(id, form, now))
  /\ form' = [resetForm(form) EXCEPT !.isOpen = FALSE]
  /\ submissions' = submissions + 1
  /\ formTrace' = [step |-> "submit", kind |-> "-", how |-> "-"]
  /\ UNCHANGED runs

\* --- what the awaited calls do to a run

\* extractMetadataFromTenderFile settles: its then-callback fills the form;
\* a rejection rejects Promise.all and handleFile goes to its catch block.
MetadataSettles(r, outcome) ==
  /\ r \in 1..Len(runs) /\ runs[r].pc = "extract" /\ runs[r].metadata = Pending
  /\ IF outcome = Rejects THEN Proceed(r, CatchFile(form))
     ELSE Proceed(r, Awaiting(FillMetadata(form, outcome),
                              [runs[r] EXCEPT !.metadata =
                                 [tenderPageUrl |-> outcome.tenderPageUrl]]))

\* extractLinksFromPdf settles (it catches its own errors).
PdfLinksSettle(r, list) ==
  /\ r \in 1..Len(runs) /\ runs[r].pc = "extract" /\ runs[r].pdfLinks = Pending
  /\ Proceed(r, Awaiting(form, [runs[r] EXCEPT !.pdfLinks = [links |-> list]]))

\* Promise.all resolved: the links are probed if there are any.
ExtractionDone(r) ==
  /\ r \in 1..Len(runs) /\ runs[r].pc = "extract"
  /\ runs[r].metadata # Pending /\ runs[r].pdfLinks # Pending
  /\ IF runs[r].pdfLinks.links # "none"
     THEN Proceed(r, Awaiting(form, [runs[r] EXCEPT !.pc = "probe"]))
     ELSE Proceed(r, AfterProbe(form, runs[r], Null, Null))

\* probeLinksInBatches settles.
ProbeSettles(r, outcome) ==
  /\ r \in 1..Len(runs) /\ runs[r].pc = "probe"
  /\ IF outcome = Rejects THEN Proceed(r, CatchFile(form))
     ELSE Proceed(r, AfterProbe(form, runs[r], outcome.admin, outcome.tech))

\* scrapeDocsFromWeb settles, in processUrlForDocs.
ScrapeSettles(r, outcome) ==
  /\ r \in 1..Len(runs) /\ runs[r].pc = "scrape"
  /\ IF outcome = Rejects THEN Proceed(r, CatchDocs(form, runs[r]))
     ELSE LET run1 == [runs[r] EXCEPT !.finalAdminUrl = outcome.adminUrl,
                                      !.finalTechUrl = outcome.techUrl]
          IN IF outcome.adminUrl # ""
             THEN LET f1 == [form EXCEPT !.adminUrl = outcome.adminUrl] IN
                  IF run1.newAdminFile = Null
                  THEN Proceed(r, Awaiting(f1, [run1 EXCEPT !.pc = "download admin"]))
                  ELSE Proceed(r, TechStage(f1, run1))
             ELSE Proceed(r, TechStage(form, run1))

\* downloadFileFromUrl settles, in processUrlForDocs.
DownloadSettles(r, outcome) ==
  /\ r \in 1..Len(runs) /\ runs[r].pc \in {"download admin", "download tech"}
  /\ IF outcome = Rejects THEN Proceed(r, CatchDocs(form, runs[r]))
     ELSE IF runs[r].pc = "download admin"
     THEN Proceed(r, TechStage(form,
                               IF outcome # Null
                               THEN [runs[r] EXCEPT !.newAdminFile = outcome,
                                                    !.downloadCount = @ + 1]
                               ELSE runs[r]))
     ELSE Proceed(r, FinishDocs(form,
                                IF outcome # Null
                                THEN [runs[r] EXCEPT !.newTechFile = outcome,
                                                     !.downloadCount = @ + 1]
                                ELSE runs[r]))

formVars == <<form, runs, submissions, formTrace>>

FormNext ==
  \/ OpenForm
  \/ CloseForm
  \/ \E n \in Names : TypeName(n)
  \/ \E u \in PageAddresses : TypeTenderPageUrl(u)
  \/ \E type \in {"admin", "tech"} : HandleFileDocument(type)
  \/ \E type \in {"summary", "admin", "tech"} : RemoveFile(type)
  \/ \E via \in {"input", "drop"} : Len(runs) < MaxRuns /\ HandleFileSummary(via)
  \/ Len(runs) < MaxRuns /\ HandleManualScrape
  \/ \E id \in TenderIds : HandleSubmit(id)
  \/ \E r \in 1..Len(runs) : \E outcome \in MetadataResults \cup {Rejects} : MetadataSettles(r, outcome)
  \/ \E r \in 1..Len(runs) : \E list \in PdfLinkLists : PdfLinksSettle(r, list)
  \/ \E r \in 1..Len(runs) : ExtractionDone(r)
  \/ \E r \in 1..Len(runs) : \E outcome \in ProbeResults \cup {Rejects} : ProbeSettles(r, outcome)
  \/ \E r \in 1..Len(runs) : \E outcome \in ScrapeResults \cup {Rejects} : ScrapeSettles(r, outcome)
  \/ \E r \in 1..Len(runs) : \E outcome \in DownloadResults \cup {Rejects} : DownloadSettles(r, outcome)

\* What the calls that are awaiting do.
CallsNext ==
  \/ \E r \in 1..Len(runs) : \E outcome \in MetadataResults \cup {Rejects} : MetadataSettles(r, outcome)
  \/ \E r \in 1..Len(runs) : \E list \in PdfLinkLists : PdfLinksSettle(r, list)
  \/ \E r \in 1..Len(runs) : ExtractionDone(r)
  \/ \E r \in 1..Len(runs) : \E outcome \in ProbeResults \cup {Rejects} : ProbeSettles(r, outcome)
  \/ \E r \in 1..Len(runs) : \E outcome \in ScrapeResults \cup {Rejects} : ScrapeSettles(r, outcome)
  \/ \E r \in 1..Len(runs) : \E outcome \in DownloadResults \cup {Rejects} : DownloadSettles(r, outcome)

\* The user who, in the open form, only uploads the summary, removes it,
\* uploads it anew and scans by hand when the button shows.
OverlapNext ==
  \/ OpenForm
  \/ RemoveFile("summary")
  \/ Len(runs) < MaxOverlap /\ HandleFileSummary("input")
  \/ Len(runs) < MaxOverlap /\ HandleManualScrape
  \/ CallsNext

\* ------------------------------------------------------------------------
\* The whole state, and the specifications.

vars == <<dlVars, prVars, scVars, appVars, formVars, pureVars>>

Init == DlInit /\ PrInit /\ ScInit /\ AppInit /\ FormInit /\ PureInit

\* One call of downloadFileFromUrl after another, the relays answering anything.
SpecDownload == Init /\ [][DlNext /\ UNCHANGED <<prVars, scVars, appVars, formVars, pureVars>>]_vars

\* One run of probeLinksInBatches after another.
SpecProbe == Init /\ [][PrNext /\ UNCHANGED <<dlVars, scVars, appVars, formVars, pureVars>>]_vars

\* The same, where every download returns and the prober takes its steps.
PrRuns ==
  \/ PrIssueGroup
  \/ prPc = "await" /\ \E k \in 1..Len(batch) : PrSettle(k)
  \/ PrJoin
  \/ PrReturn
SpecProbeLive ==
  SpecProbe /\ WF_vars(PrRuns /\ UNCHANGED <<dlVars, scVars, appVars, formVars, pureVars>>)

\* One call of scrapeDocsFromWeb after another, over every page.
SpecScrape == Init /\ [][ScNext /\ UNCHANGED <<dlVars, prVars, appVars, formVars, pureVars>>]_vars

\* The App component: tenders added, moved and analysed in any order; every
\* pending dismiss timer runs in the end.
AppStep == AppNext /\ UNCHANGED <<dlVars, prVars, scVars, formVars, pureVars>>
SpecApp ==
  Init /\ [][AppStep]_vars
       /\ WF_vars(DismissError /\ UNCHANGED <<dlVars, prVars, scVars, formVars, pureVars>>)

\* isRelevantLink and classifyFile called on their own, on any URL and name.
SpecPure == Init /\ [][PureNext /\ UNCHANGED <<dlVars, prVars, scVars, appVars, formVars>>]_vars

\* The form alone: the user fills, scans, uploads and submits while the
\* services answer anything; the tenders go to the list of the App.
AppRest == <<analyzingIds, selectedTender, error, apiKey, analyses, dismissTimers, analysisEnded>>
FormStep == FormNext /\ UNCHANGED <<dlVars, prVars, scVars, AppRest, pureVars>>
FormSpecInit == Init /\ apiKey = TRUE
SpecForm == FormSpecInit /\ [][FormStep]_vars

\* The form where a summary is uploaded while the call of an earlier one
\* is still awaiting.
OverlapStep == OverlapNext /\ UNCHANGED <<dlVars, prVars, scVars, AppRest, pureVars>>
SpecFormOverlap == FormSpecInit /\ [][OverlapStep]_vars

\* ------------------------------------------------------------------------
\* Properties of downloadFileFromUrl.

IsFile(r) == r # Null /\ r # Threw

BothAttemptsFailed ==
  Len(attempts) = 2 /\ attempts[1].result = Null /\ attempts[2].result = Null

\* C4: downloadFileFromUrl never lets an exception out: whatever fails on the
\* first and the second relay (and whatever the URL), a finished call holds a
\* file or null, and it holds null when both relay attempts failed.
C4_NeverThrows ==
  /\ dlResult # Threw
  /\ dlPc = "done" /\ BothAttemptsFailed => dlResult = Null
  /\ dlPc = "done" /\ dlResult # Null =>
       /\ attempts # <<>>
       /\ attempts[Len(attempts)].result # Null
       /\ dlResult.size = attempts[Len(attempts)].blob.size

\* A call has ended with null after a network failure on one relay and a
\* rejected payload on the other.
C4_Witness ==
  /\ dlPc = "done" /\ BothAttemptsFailed /\ dlResult = Null
  /\ attempts[1].blob = Null /\ attempts[2].blob # Null

\* The relay requests a call at this point of its run must have made, given
\* whether the URL is one the call requests at all.
RequestsAsClaimed(requested) ==
  IF dlPc = "idle" THEN requests = <<>>
  ELSE IF ~requested THEN requests = <<>>
  ELSE /\ Len(requests) \in {1, 2}
       /\ requests[1] = [relay |-> Relays[1], target |-> dlUrl]
       /\ Len(requests) = 2 => requests[2] = [relay |-> Relays[2], target |-> dlUrl]
       /\ Relays[1] # Relays[2]
       \* the second relay is requested exactly when the first attempt failed
       /\ Len(requests) = 2 <=> (attempts # <<>> /\ attempts[1].result = Null)
       \* a first attempt that succeeded ends the call with its payload
       /\ attempts # <<>> /\ attempts[1].result # Null =>
            /\ dlPc = "done" /\ Len(attempts) = 1 /\ IsFile(dlResult)
            /\ dlResult.type = attempts[1].blob.type
            /\ dlResult.size = attempts[1].blob.size
            /\ dlResult.text = attempts[1].blob.text

\* An HTTP(S) URL, by its scheme.
IsHttpUrl(url) == StartsWith(url, Str("http://")) \/ StartsWith(url, Str("https://"))

\* C5 as stated: no request for an empty or non-HTTP(S) URL, otherwise the
\* first relay, then the second exactly when the first attempt failed.
C5_Original ==
  RequestsAsClaimed(dlUrl # "" /\ IsHttpUrl(Str(dlUrl)))

\* C5, amended: no request for a URL that is empty, that does not start with
\* "http", or that encodeURIComponent rejects (the URIError is caught); the
\* call then returns null.  For every other URL the first relay is requested,
\* the second exactly when the first attempt failed, never a third request,
\* and a first attempt that succeeded gives the returned payload.
C5_RelayOrder ==
  /\ RequestsAsClaimed(dlUrl # "" /\ StartsWith(Str(dlUrl), Str("http")) /\ CanEncode(Str(dlUrl)))
  /\ dlPc = "done" /\ requests = <<>> => dlResult = Null

\* The first attempt failed, the second relay was asked and its payload returned.
C5_Witness ==
  /\ dlPc = "done" /\ Len(requests) = 2 /\ IsFile(dlResult)
  /\ attempts[1].result = Null /\ attempts[2].result # Null

\* The payloads the claim calls error pages.
IsHtmlType(blob) == Includes(Str(blob.type), Str("text/html"))
IsSmallErrorPage(blob) ==
  /\ blob.size < 2000 /\ blob.readable
  /\ \/ Includes(Str(blob.text), Str("<html"))
     \/ Includes(Str(blob.text), Str("Error"))
     \/ Includes(Str(blob.text), Str("Denied"))

\* C6: no returned file is HTML or a small error page: an attempt that read
\* such a payload failed; and a 3000-byte application/pdf payload without a
\* Content-Disposition filename comes back with its length, its type and a
\* name ending in .pdf.
C6_PayloadValidation ==
  /\ \A k \in 1..Len(attempts) :
       attempts[k].blob # Null /\ (IsHtmlType(attempts[k].blob) \/ IsSmallErrorPage(attempts[k].blob))
         => attempts[k].result = Null
  /\ IsFile(dlResult) => ~IsHtmlType(dlResult) /\ ~IsSmallErrorPage(dlResult)
  /\ dlPc = "done" /\ attempts # <<>> =>
       LET last == attempts[Len(attempts)] IN
         /\ last.blob # Null /\ last.blob.type = "application/pdf" /\ last.blob.size = 3000
         /\ last.result # Null /\ last.result.filename = <<>>
         => /\ IsFile(dlResult)
            /\ dlResult.size = 3000 /\ dlResult.type = "application/pdf"
            /\ EndsWith(dlResult.name, Str(".pdf"))

\* Both relays answered a 500-byte text/html page holding "<html": the call
\* returned null.
C6_Witness ==
  /\ dlPc = "done" /\ Len(attempts) = 2 /\ dlResult = Null
  /\ \A k \in 1..2 :
       /\ attempts[k].blob # Null
       /\ attempts[k].blob.type = "text/html" /\ attempts[k].blob.size = 500
       /\ attempts[k].blob.readable
       /\ Includes(Str(attempts[k].blob.text), Str("<html"))

\* C7 as stated: while an attempt waits for its relay (for the headers or for
\* the body) its abort timer is pending.
C7_TimerArmedWhileWaiting ==
  dlPc \in {"fetch", "blob"} => timeoutArmed

\* ------------------------------------------------------------------------
\* Properties of probeLinksInBatches.

\* The run is at a group boundary with both slots filled.
HoldsBoth(slots) == slots.admin # Null /\ slots.tech # Null
BothFilledAtBoundary == prPc = "loop" /\ HoldsBoth(results)

\* The step that hands the prober back to its caller for the next run.
IsPrReset == prPc = "done" /\ prPc' = "idle"

\* C1: once both slots are filled at a group boundary no further group is
\* issued: the next step returns the slots and probes nothing; the links
\* probed are always the leading groups of the candidates; and with 10
\* candidates of which the 2nd came out ADMIN and the 5th TECH, the 9th and
\* the 10th are never probed.
C1_EarlyExit ==
  /\ [](/\ Len(probed) <= Len(uniqueLinks)
        /\ probed = SubSeq(uniqueLinks, 1, Len(probed))
        /\ prPc = "done" /\ HoldsBoth(returned) =>
             Len(probed) = Min(Len(uniqueLinks), BATCH_SIZE * ((Len(probed) + BATCH_SIZE - 1) \div BATCH_SIZE))
        /\ Len(uniqueLinks) = 10 /\ settled[2] = "ADMIN" /\ settled[5] = "TECH" =>
             /\ Len(probed) <= 8
             /\ \A k \in 1..Len(probed) : probed[k] \notin {uniqueLinks[9], uniqueLinks[10]})
  /\ [][BothFilledAtBoundary =>
          prPc' = "done" /\ probed' = probed /\ returned' = results /\ results' = results]_vars

\* A run over 10 candidates returned after its second group: the 2nd link
\* came out ADMIN, the 5th TECH, and the 9th and 10th were never probed.
C1_Witness ==
  /\ prPc = "done" /\ Len(uniqueLinks) = 10
  /\ settled[2] = "ADMIN" /\ settled[5] = "TECH"
  /\ Len(probed) = 8 /\ settled[9] = "-" /\ settled[10] = "-"
  /\ HoldsBoth(returned)

\* C2: each slot is written at most once in a run: a slot that holds a file
\* holds the same file after every later step of the run, and in the
\* returned mapping.
C2_SlotsWrittenOnce ==
  /\ [](/\ slotWrites.admin <= 1 /\ slotWrites.tech <= 1
        /\ prPc = "done" => returned = results)
  /\ [][~IsPrReset =>
          /\ results.admin # Null => results'.admin = results.admin
          /\ results.tech # Null => results'.tech = results.tech]_vars

\* A run returned the ADMIN file of its first link although a link of the
\* second group also came out ADMIN.
C2_Witness ==
  /\ prPc = "done" /\ Len(uniqueLinks) >= 6
  /\ settled[1] = "ADMIN" /\ settled[6] = "ADMIN"
  /\ returned.admin # Null /\ returned.admin.origin = UrlText(uniqueLinks[1])
  /\ slotWrites.admin = 1

\* The rule of the fold as the claim words it: the slot a file of the given
\* classification goes to, or "none" when it is discarded.
ClaimedSlot(slots, type) ==
  CASE type = "ADMIN" /\ slots.admin = Null -> "admin"
    [] type = "TECH" /\ slots.tech = Null -> "tech"
    [] type = "UNKNOWN" /\ slots.admin = Null -> "admin"
    [] type = "UNKNOWN" /\ slots.admin # Null /\ slots.tech = Null -> "tech"
    [] OTHER -> "none"

\* The claimed rule applied to one result of a group; a probe that
\* downloaded nothing leaves the slots alone.
ClaimedPut(slots, res) ==
  IF res = Null THEN slots
  ELSE LET slot == ClaimedSlot(slots, res.type) IN
       IF slot = "none" THEN slots ELSE [slots EXCEPT ![slot] = res.file]

\* The claimed rule over the first k results of a group, in list order.
RECURSIVE ClaimedFold(_, _, _)
ClaimedFold(slots, group, k) ==
  IF k = 0 THEN slots
  ELSE ClaimedPut(ClaimedFold(slots, group, k - 1), group[k])

\* C3: after each group the slots are the claimed fold of the group's
\* downloaded files in list order; so no file classified TECH is ever stored
\* in the admin slot, nor one classified ADMIN in the tech slot.
C3_FoldRule ==
  [][prPc = "await" /\ prPc' = "loop" =>
       /\ results' = ClaimedFold(results, batchResults, Len(batchResults))
       /\ results'.admin # results.admin => classifyFile(results'.admin) # "TECH"
       /\ results'.tech # results.tech => classifyFile(results'.tech) # "ADMIN"]_vars

\* Two files of unknown classification filled the admin slot, then the tech
\* slot, in list order.
C3_Witness ==
  /\ prPc = "done" /\ Len(uniqueLinks) >= 2
  /\ settled[1] = "UNKNOWN" /\ settled[2] = "UNKNOWN"
  /\ returned.admin # Null /\ returned.admin.origin = UrlText(uniqueLinks[1])
  /\ returned.tech # Null /\ returned.tech.origin = UrlText(uniqueLinks[2])

\* ------------------------------------------------------------------------
\* Properties of scrapeDocsFromWeb.

\* The anchors the reference function passes over: as the claim words it
\* (no href attribute), and with the empty href added.
ClaimedSkip(href) ==
  \/ href = NullString
  \/ (href # NullString /\ StartsWith(Str(href), Str("javascript")))
  \/ href = "#" \/ href = "/"
AmendedSkip(href) == href = "" \/ ClaimedSkip(href)

\* The least, and the second least, member of a set of positions.
Least(S) == CHOOSE k \in S : \A m \in S : k <= m
Second(S) == Least(S \ {Least(S)})

\* The reference function of the claim over a page: first keyword match per
\* category, then the positional backfill from the .pdf/.zip URLs.
Reference(page, Skip(_)) ==
  LET kept == {k \in 1..Len(page) : ~Skip(page[k].href)}
      Url(k) == resolveUrl(OrEmpty(page[k].href), Str(pageUrl))
      admins == {k \in kept : isAdmin(CombinedText(page[k]))}
      techs == {k \in kept : isTech(CombinedText(page[k]))}
      files == {k \in kept : isFile(Url(k))}
  IN ScrapeResult(
       IF admins # {} THEN Defined(Url(Least(admins)))
       ELSE IF files # {} THEN Defined(Url(Least(files))) ELSE Null,
       IF techs # {} THEN Defined(Url(Least(techs)))
       ELSE IF Cardinality(files) >= 2 THEN Defined(Url(Second(files))) ELSE Null)

ScrapedPage == scPc = "done" /\ scIndex = Len(anchors) /\ scResult # EmptyScrape

\* C10 as stated: the result is the reference function over the anchors
\* left after skipping those whose href is absent, starts with 'javascript',
\* is '#' or is '/'.
C10_Original == ScrapedPage => scResult = Reference(anchors, ClaimedSkip)

\* C10, amended: the anchors skipped are those whose href is absent or
\* empty, starts with 'javascript', is '#' or is '/'; over the others the
\* result is the reference function (first match per category, never
\* replaced, then the first and the second .pdf/.zip URL as backfill).
C10_ScrapeReference == ScrapedPage => scResult = Reference(anchors, AmendedSkip)

\* A page of two generic .pdf links without a keyword gave the first as
\* adminUrl and the second as techUrl.
C10_Witness ==
  /\ ScrapedPage
  /\ anchors = <<[href |-> "http://e.s/a.pdf", text |-> "Descargar"],
                 [href |-> "http://e.s/d.pdf", text |-> "Ver"]>>
  /\ scResult = ScrapeResult(Defined(Str("http://e.s/a.pdf")), Defined(Str("http://e.s/d.pdf")))

\* A result with neither adminUrl nor techUrl set.
NoUrlSet(r) == r = EmptyScrape \/ r = ScrapeResult(Null, Null)

\* The step is the catch of scrapeDocsFromWeb: the fetch failed, or the scan
\* stopped at an anchor.
ScrapeJustFailed ==
  /\ scPc' = "done"
  /\ scPc = "fetch" \/ (scPc = "loop" /\ scIndex < Len(anchors))

\* What C11 says of failures: no exception leaves the call, and a failed
\* fetch or scan gives the empty mapping, whatever was recorded before.
FailuresGiveNothing ==
  /\ [](scResult # Threw)
  /\ [][ScrapeJustFailed => NoUrlSet(scResult')]_vars

\* C11 as stated: besides, a call with an empty or non-HTTP(S) page URL
\* returns the empty mapping.
C11_Original ==
  scPc = "done" /\ (pageUrl = "" \/ ~IsHttpUrl(Str(pageUrl))) => NoUrlSet(scResult)

\* C11, amended: scrapeDocsFromWeb never lets an exception out; it returns
\* the empty mapping, without any request, when the page URL is empty or does
\* not start with "http", and also when the relay request fails or the scan
\* fails at an anchor, the URLs recorded by then being discarded.
C11_ScrapeNeverThrows ==
  /\ FailuresGiveNothing
  /\ [](scPc = "done" /\ (pageUrl = "" \/ ~StartsWith(Str(pageUrl), Str("http")))
          => NoUrlSet(scResult) /\ anchors = <<>>)

\* The scan failed at the second anchor after the first had given an
\* adminUrl: the call returned the empty mapping.
C11_Witness ==
  /\ scPc = "done" /\ Len(anchors) = 2 /\ scIndex = 1
  /\ scAdminUrl # Null /\ NoUrlSet(scResult)

\* ------------------------------------------------------------------------
\* Properties of handleAnalyze.

\* The step just taken ended a handleAnalyze call by a failure of the service.
AnalysisJustFailed == analysisEnded' # Null /\ analysisEnded'.how \in ServiceFailures

\* C9: a failed analysis leaves the tender list as it was (starting the call
\* does not touch it either), shows the error notification and takes the
\* tender's id out of the set of tenders being analysed; while a notification
\* is shown a dismiss timer is pending, and a timer that runs clears it.
C9_AnalysisFailure ==
  /\ [][AnalysisJustFailed =>
          /\ tenders' = tenders
          /\ error' = Defined(AnalyzeError) /\ dismissTimers' = dismissTimers + 1
          /\ analysisEnded'.id \in analyzingIds
          /\ analysisEnded'.id \notin analyzingIds']_vars
  /\ [][analyzingIds' # analyzingIds /\ analysisEnded' = Null => tenders' = tenders]_vars
  /\ [](error # Null => dismissTimers > 0)
  /\ [][dismissTimers' < dismissTimers => error' = Null]_vars

\* The analysis of the tender t1 has just failed: t1 is still pending and
\* without a report, next to a tender that has one; the error is shown and
\* t1 is no longer being analysed.
C9_Witness ==
  /\ analysisEnded # Null /\ analysisEnded.how = "malformed text" /\ analysisEnded.id = "t1"
  /\ Len(tenders) = 2
  /\ \E k \in 1..2 : tenders[k] = PlainTender("t1")
  /\ \E k \in 1..2 : tenders[k].id = "t2" /\ tenders[k].aiAnalysis # Null
  /\ error = Defined(AnalyzeError) /\ "t1" \notin analyzingIds

\* ------------------------------------------------------------------------
\* Properties of the acquisition runs of the form and of handleSubmit.

RunJustEnded == formTrace # Null /\ formTrace.step = "run ends"
JustSubmitted == formTrace # Null /\ formTrace.step = "submit"
SubmitEnabled == ENABLED (\E id \in TenderIds : HandleSubmit(id))

\* C8: whatever the services answer (no link, no file, no page, a rejection)
\* during a summary upload or a manual scan, the step that ends the run
\* leaves isExtracting false; and every submission of an open form with a
\* name is possible, and puts in front of the tender list a PENDING record
\* with the name and the adminFile and techFile of the form (none, if no
\* document was acquired), the rest of the list being kept.
C8_PipelineNeverBlocks ==
  /\ [][RunJustEnded' => ~form'.isExtracting]_vars
  /\ [](form.isOpen /\ form.name # "" /\ submissions < MaxSubmissions => SubmitEnabled)
  /\ [][JustSubmitted' =>
          /\ form.name # ""
          /\ Len(tenders') = Len(tenders) + 1
          /\ tenders'[1].name = form.name /\ tenders'[1].status = "PENDING"
          /\ tenders'[1].adminFile = form.adminFile
          /\ tenders'[1].techFile = form.techFile
          /\ \A k \in 1..Len(tenders) : tenders'[k + 1] = tenders[k]]_vars

\* A summary upload has just ended in its catch block: the form is open with
\* a typed name, no document, the error shown, and it can be submitted.
C8_Witness ==
  /\ RunJustEnded /\ formTrace.kind = "file" /\ formTrace.how = "caught"
  /\ ~form.isExtracting /\ form.downloadError.show
  /\ form.isOpen /\ form.name = "Obra"
  /\ form.adminFile = Null /\ form.techFile = Null
  /\ tenders = <<>>

\* ------------------------------------------------------------------------
\* Properties of isRelevantLink and classifyFile.

\* The URL, in lower case, holds the text.
UrlHolds(url, text) == Includes(ToLowerCase(Str(url)), Str(text))
DenyList == {"google.com", "facebook", "twitter", "linkedin", "maps.", "youtube"}

\* C12 as stated: false for every URL holding "mailto:", "facebook",
\* "youtube" or "maps." anywhere, true for a URL holding no deny-list text.
C12_Original ==
  relevanceCall # Null =>
    /\ (\E text \in {"mailto:", "facebook", "youtube", "maps."} : UrlHolds(relevanceCall.url, text))
         => relevanceCall.result = FALSE
    /\ (\A text \in DenyList \cup {"mailto:"} : ~UrlHolds(relevanceCall.url, text))
         => relevanceCall.result = TRUE

\* C12, amended: isRelevantLink returns false exactly for the URLs that, in
\* lower case, start with "mailto:" or hold "google.com", "facebook",
\* "twitter", "linkedin", "maps." or "youtube" anywhere; a "mailto:" further
\* inside the URL does not count; https://example.com/doc.pdf gives true.
C12_RelevanceFilter ==
  relevanceCall # Null =>
    /\ relevanceCall.result = FALSE <=>
         \/ StartsWith(ToLowerCase(Str(relevanceCall.url)), Str("mailto:"))
         \/ \E text \in DenyList : UrlHolds(relevanceCall.url, text)
    /\ relevanceCall.url = "https://example.com/doc.pdf" => relevanceCall.result = TRUE
    /\ relevanceCall.url = "https://e.s/?to=mailto:a" => relevanceCall.result = TRUE

\* The filter was asked about a Facebook address written with a capital.
C12_Witness ==
  /\ relevanceCall # Null /\ relevanceCall.url = "https://www.Facebook.com/e"
  /\ relevanceCall.result = FALSE

\* The normalized name holds one of the keywords.
NameHolds(fileName, keywords) ==
  \E kw \in keywords : Includes(normalizeText(Str(fileName)), Str(kw))

\* C13: classifyFile gives every name exactly one of the three tags: ADMIN
\* when the normalized name holds an administrative keyword (also when it
\* holds a technical one), otherwise TECH when it holds a technical keyword,
\* otherwise UNKNOWN; with the three names of the examples tagged as stated.
C13_ClassifierPrecedence ==
  classifyCall # Null =>
    /\ classifyCall.result \in {"ADMIN", "TECH", "UNKNOWN"}
    /\ classifyCall.result = "ADMIN" <=> NameHolds(classifyCall.name, AdminKeywords)
    /\ classifyCall.result = "TECH" <=>
         ~NameHolds(classifyCall.name, AdminKeywords) /\ NameHolds(classifyCall.name, TechKeywords)
    /\ classifyCall.name = "PCAP_2024.pdf" => classifyCall.result = "ADMIN"
    /\ classifyCall.name = "Memoria_Tecnica.pdf" => classifyCall.result = "TECH"
    /\ classifyCall.name = "random_file.pdf" => classifyCall.result = "UNKNOWN"

\* A name holding a technical keyword before an administrative one was
\* tagged ADMIN.
C13_Witness ==
  /\ classifyCall # Null /\ classifyCall.name = "ppt_administrativo.pdf"
  /\ classifyCall.result = "ADMIN"

\* ------------------------------------------------------------------------
\* Properties of the progress reports, the candidate list and the groups of
\* probeLinksInBatches.

\* The filter as it is documented, per link: the lower-cased URL neither
\* starts with "mailto:" nor holds a deny-list text.
PassesFilter ==
  [u \in MapsUrl..MaxLinks |->
     /\ ~StartsWith(ToLowerCase(UrlText(u)), Str("mailto:"))
     /\ \A text \in DenyList : ~Includes(ToLowerCase(UrlText(u)), Str(text))]

\* The number of deduplicated relevant candidates of the run.
TotalCandidates ==
  Cardinality({u \in {links[k] : k \in 1..Len(links)} : PassesFilter[u]})

\* The step in which a group completes (Promise.all resolved, fold done).
GroupCompletes == prPc = "await" /\ prPc' = "loop"

\* C14: the progress callback is invoked once at each group completion and
\* at no other time; the k-th report is (min(4k, total), total) with total
\* the number of deduplicated relevant candidates; the processed count
\* strictly increases and never exceeds total; a run that returns has
\* reported once per group it issued.
C14_ProgressReports ==
  /\ [](prPc # "idle" =>
          /\ \A k \in 1..Len(progressCalls) :
               /\ progressCalls[k] = <<Min(4 * k, TotalCandidates), TotalCandidates>>
               /\ progressCalls[k][1] <= progressCalls[k][2]
               /\ k > 1 => progressCalls[k - 1][1] < progressCalls[k][1]
          /\ prPc \in {"loop", "done"} => Len(probed) = Min(4 * Len(progressCalls), TotalCandidates)
          /\ prPc = "await" => Len(probed) = Min(4 * (Len(progressCalls) + 1), TotalCandidates))
  /\ [][/\ GroupCompletes => Len(progressCalls') = Len(progressCalls) + 1
        /\ ~GroupCompletes /\ ~IsPrReset => progressCalls' = progressCalls]_vars

\* A run over 10 candidates returned after three groups: the third report
\* is (10, 10), not (12, 10).
C14_Witness ==
  /\ prPc = "done" /\ Len(links) = 10
  /\ progressCalls = <<<<4, 10>>, <<8, 10>>, <<10, 10>>>>

\* The list without its repeated elements: each link where it first occurs.
RECURSIVE FirstOccurrences(_)
FirstOccurrences(list) ==
  IF list = <<>> THEN <<>>
  ELSE LET front == FirstOccurrences(SubSeq(list, 1, Len(list) - 1))
           last  == list[Len(list)]
       IN IF \E k \in 1..Len(front) : front[k] = last THEN front ELSE Append(front, last)

\* C15: the candidate list a run starts with is the one the step computes
\* from the deduplicated input, and the step applied to the candidate list
\* gives the candidate list back.
C15_DedupIdempotent ==
  prPc = "loop" /\ i = 0 =>
    /\ uniqueLinks = UniqueLinks(FirstOccurrences(links))
    /\ UniqueLinks(uniqueLinks) = uniqueLinks

\* A run over a list that repeats a link around a filtered one.
C15_Witness ==
  /\ prPc = "loop" /\ i = 0 /\ links = <<1, MailtoUrl, 1>>
  /\ uniqueLinks = <<1>>

\* ------------------------------------------------------------------------
\* Properties of the tender list of the App.

\* The record t with the status and the report of the record u: equal to u
\* when the two differ in nothing else (id, name, budget, scoring text, page
\* address, document URLs and files, summary file, creation time).
WithStatusAndReportOf(t, u) == [t EXCEPT !.status = u.status, !.aiAnalysis = u.aiAnalysis]

\* C16: no step shortens the tender list, and every record of the list is
\* found after the step at the same place from the end, equal to what it was
\* in every field but status and aiAnalysis (so a record moved to ARCHIVED
\* stays in the list); a step that adds a record leaves the others as they
\* were.
C16_RecordsKept ==
  [][/\ Len(tenders') >= Len(tenders)
     /\ \A k \in 1..Len(tenders) :
          WithStatusAndReportOf(tenders'[k + Len(tenders') - Len(tenders)], tenders[k]) = tenders[k]
     /\ Len(tenders') > Len(tenders) => SubSeq(tenders', 2, Len(tenders')) = tenders]_vars

\* The second tender was analysed and then archived next to the first one,
\* which was rejected by its analysis: both are in the list as created.
C16_Witness ==
  /\ Len(tenders) = 2
  /\ \E k \in 1..2 :
       /\ tenders[k].id = "t2" /\ tenders[k].status = "ARCHIVED" /\ tenders[k].aiAnalysis # Null
       /\ WithStatusAndReportOf(tenders[k], PlainTender("t2")) = PlainTender("t2")
  /\ \E k \in 1..2 :
       /\ tenders[k].id = "t1" /\ tenders[k].status = "REJECTED"
       /\ WithStatusAndReportOf(tenders[k], PlainTender("t1")) = PlainTender("t1")

\* The probes of the current group that have not settled.
InFlight == {k \in 1..Len(batchResults) : batchResults[k] = Pending}

\* The links probed so far whose probe has not settled.
Unsettled == {k \in 1..Len(probed) : settled[k] = "-"}

\* C17: never more than 4 probes are in flight, the unsettled probes all
\* belong to the group issued last, and a step that issues probes is taken
\* only when every probe issued before has settled.
C17_GroupsSequential ==
  /\ [](/\ Cardinality(InFlight) <= 4
        /\ Cardinality(Unsettled) = Cardinality(InFlight)
        /\ \A k \in Unsettled : (k - 1) \div 4 = (Len(probed) - 1) \div 4)
  /\ [][Len(probed') > Len(probed) =>
          /\ Unsettled = {} /\ InFlight = {}
          /\ Len(probed') - Len(probed) <= 4]_vars

\* The four probes of the second group are in flight together.
C17_Witness ==
  /\ prPc = "await" /\ Len(probed) = 8
  /\ Unsettled = 5..8 /\ Cardinality(InFlight) = 4

\* Which of the first n candidates owns each slot, by the classifications
\* of their probes taken in candidate order (0: the slot is empty).
RECURSIVE SlotOwners(_)
SlotOwners(n) ==
  IF n = 0 THEN [admin |-> 0, tech |-> 0]
  ELSE LET prev == SlotOwners(n - 1)
           type == settled[n]
       IN CASE type = "ADMIN" /\ prev.admin = 0 -> [prev EXCEPT !.admin = n]
            [] type = "TECH" /\ prev.tech = 0 -> [prev EXCEPT !.tech = n]
            [] type = "UNKNOWN" /\ prev.admin = 0 -> [prev EXCEPT !.admin = n]
            [] type = "UNKNOWN" /\ prev.admin # 0 /\ prev.tech = 0 -> [prev EXCEPT !.tech = n]
            [] OTHER -> prev

\* The slots hold the files downloaded from the candidates that own them.
SlotsOwnedBy(slots, owners) ==
  \A slot \in {"admin", "tech"} :
    IF owners[slot] = 0 THEN slots[slot] = Null
    ELSE slots[slot] # Null /\ slots[slot].origin = UrlText(uniqueLinks[owners[slot]])

\* C18: the slots change only in the step that completes a group, never
\* while a probe of the group is in flight; at every group boundary, and in
\* the mapping returned, they are determined by the candidate order and the
\* outcome of each probe, whatever the order in which the probes settled.
C18_SlotsAtJoinOnly ==
  /\ [](/\ prPc \in {"loop", "done"} => SlotsOwnedBy(results, SlotOwners(Len(probed)))
        /\ prPc = "done" => SlotsOwnedBy(returned, SlotOwners(Len(probed))))
  /\ [][/\ InFlight # {} => results' = results
        /\ results' # results => GroupCompletes \/ IsPrReset]_vars

\* A run returned the file of its first link, of unknown kind, as the
\* administrative one, and the file of its third link as the technical one;
\* the second link gave an administrative file.
C18_Witness ==
  /\ prPc = "done" /\ Len(probed) = 4
  /\ settled[1] = "UNKNOWN" /\ settled[2] = "ADMIN" /\ settled[3] = "TECH"
  /\ returned.admin # Null /\ returned.admin.origin = UrlText(uniqueLinks[1])
  /\ returned.tech # Null /\ returned.tech.origin = UrlText(uniqueLinks[3])

\* The results of a group without those of the probes that failed.
Succeeded(group) == SelectSeq(group, LAMBDA res : res # Null)

\* C19: the step that completes a group folds the files of the probes that
\* succeeded exactly as if the failed ones had not been in the group, and
\* goes back to the loop; at a boundary with a slot empty and candidates
\* left the next group is issued; the run returns the slots, with every
\* candidate probed when a slot is still empty; and no link is probed twice.
C19_FailureIsolated ==
  /\ [](/\ \A a, b \in 1..Len(probed) : a # b => probed[a] # probed[b]
        /\ prPc = "done" =>
             /\ returned = results
             /\ ~HoldsBoth(returned) => Len(probed) = Len(uniqueLinks))
  /\ [][/\ GroupCompletes =>
             /\ results' = ClaimedFold(results, Succeeded(batchResults),
                                       Len(Succeeded(batchResults)))
             /\ probed' = probed
        /\ prPc = "loop" /\ ~HoldsBoth(results) /\ i < Len(uniqueLinks) =>
             prPc' = "await" /\ Len(probed') > Len(probed)]_vars

\* In the first group of a run three probes failed and the third link gave
\* the administrative file; the second group was issued, and the run
\* returned that file.
C19_Witness ==
  /\ prPc = "done" /\ Len(probed) = 8
  /\ settled[1] = "null" /\ settled[2] = "null" /\ settled[3] = "ADMIN" /\ settled[4] = "null"
  /\ returned.admin # Null /\ returned.admin.origin = UrlText(uniqueLinks[3])

\* For each input, the links that pass the filter, each where it first
\* occurs in the input.
ExpectedOrder ==
  [L \in ProbeInputs |-> SelectSeq(FirstOccurrences(L), LAMBDA u : PassesFilter[u])]

\* C20: the links probed in a run are, in this order, the leading ones of
\* the links of the input that pass the filter, each taken where it first
\* occurs: so none is probed twice and none that the filter rejects is
\* probed; a run that returns with a slot empty has probed them all.
C20_ProbedOnceInOrder ==
  prPc # "idle" =>
    /\ Len(probed) <= Len(ExpectedOrder[links])
    /\ probed = SubSeq(ExpectedOrder[links], 1, Len(probed))
    /\ \A k \in 1..Len(probed) : PassesFilter[probed[k]]
    /\ \A a, b \in 1..Len(probed) : probed[a] = probed[b] => a = b
    /\ prPc = "done" /\ ~HoldsBoth(returned) => probed = ExpectedOrder[links]

\* A run over the second link, the first link and the second link again
\* probed the second link and then the first, and nothing else.
C20_Witness ==
  /\ prPc = "done" /\ links = <<2, 1, 2>>
  /\ probed = <<2, 1>>

\* The candidate whose download a file is, and the candidates whose probe
\* gave a file of the given classification.
CandidateOf(file) == CHOOSE k \in 1..Len(uniqueLinks) : UrlText(uniqueLinks[k]) = file.origin
Classified(type) == {k \in 1..Len(probed) : settled[k] = type}

\* C22 as stated: when a probe of the run gave an ADMIN file the returned
\* admin slot holds an ADMIN file, and when one gave a TECH file the tech
\* slot holds a TECH file.
C22_Original ==
  prPc = "done" =>
    /\ Classified("ADMIN") # {} =>
         returned.admin # Null /\ CandidateOf(returned.admin) \in Classified("ADMIN")
    /\ Classified("TECH") # {} =>
         returned.tech # Null /\ CandidateOf(returned.tech) \in Classified("TECH")

\* The slot is filled with a file of its own classification, or with an
\* UNKNOWN file of a candidate that comes before every candidate of that
\* classification.
OwnOrEarlierUnknown(file, type) ==
  /\ file # Null
  /\ \/ CandidateOf(file) \in Classified(type)
     \/ /\ CandidateOf(file) \in Classified("UNKNOWN")
        /\ \A k \in Classified(type) : CandidateOf(file) < k

\* C22, amended: when a probe of the run gave an ADMIN file the returned
\* admin slot is filled, with an ADMIN file or with an UNKNOWN file of an
\* earlier candidate; likewise for TECH and the tech slot; and a slot never
\* holds a file classified for the other slot.
C22_SlotsByClassification ==
  prPc = "done" =>
    /\ Classified("ADMIN") # {} => OwnOrEarlierUnknown(returned.admin, "ADMIN")
    /\ Classified("TECH") # {} => OwnOrEarlierUnknown(returned.tech, "TECH")
    /\ returned.admin # Null => CandidateOf(returned.admin) \notin Classified("TECH")
    /\ returned.tech # Null => CandidateOf(returned.tech) \notin Classified("ADMIN")

\* A run over two links returned the UNKNOWN file of the first as the
\* administrative document although the second gave an ADMIN file.
C22_Witness ==
  /\ prPc = "done" /\ Len(uniqueLinks) = 2
  /\ settled = <<"UNKNOWN", "ADMIN">>
  /\ returned.admin # Null /\ CandidateOf(returned.admin) = 1

\* ceil(n / 4)
GroupsFor(n) == (n + 3) \div 4

\* C23: a run issues at most ceil(n/4) groups for its n deduplicated
\* relevant candidates; a run that returns with a slot empty has gone
\* through all ceil(n/4) groups and probed every candidate exactly once; a
\* run that returns with candidates left unprobed has both slots filled;
\* and, every download returning, a run that was started returns.
C23_StopsOnlyWhenFilled ==
  /\ [](prPc # "idle" =>
          /\ Len(progressCalls) <= GroupsFor(TotalCandidates)
          /\ Len(probed) <= 4 * GroupsFor(TotalCandidates)
          /\ prPc = "done" /\ ~HoldsBoth(returned) =>
               /\ Len(progressCalls) = GroupsFor(TotalCandidates)
               /\ Len(probed) = TotalCandidates
               /\ \A u \in {links[k] : k \in 1..Len(links)} :
                    PassesFilter[u] => Cardinality({k \in 1..Len(probed) : probed[k] = u}) = 1
          /\ prPc = "done" /\ Len(probed) < TotalCandidates => HoldsBoth(returned))
  /\ (prPc \in {"loop", "await"} ~> prPc = "done")

\* A run over 10 candidates returned after its third group with the
\* technical slot empty: all 10 were probed.
C23_Witness ==
  /\ prPc = "done" /\ TotalCandidates = 10
  /\ Len(progressCalls) = 3 /\ Len(probed) = 10
  /\ returned.admin # Null /\ returned.tech = Null

\* C24 as stated: a scrape that returns both an adminUrl and a techUrl
\* returns two different URLs.
C24_DistinctUrls ==
  scPc = "done" /\ scResult # EmptyScrape /\ scResult.adminUrl # Null /\ scResult.techUrl # Null
    => scResult.adminUrl # scResult.techUrl

\* The same for the pages on which no anchor matches both keyword sets:
\* the backfill from the .pdf/.zip list alone.
C24_BackfillDistinct ==
  /\ scPc = "done" /\ scResult # EmptyScrape
  /\ scResult.adminUrl # Null /\ scResult.techUrl # Null
  /\ \A k \in 1..Len(anchors) : anchors[k].text # "PCAP y PPT"
  => scResult.adminUrl # scResult.techUrl

\* ------------------------------------------------------------------------
\* Properties of the status and the report of a tender.

\* The record of the list with the given id.
TenderWithId(list, id) == list[CHOOSE k \in 1..Len(list) : list[k].id = id]

\* The step completes the analysis of the tender id with a report.
AnalysisJustResolved(id) ==
  analyses[id] # Null /\ analysisEnded' = [id |-> id, how |-> "resolved"]

\* C25 as stated: when an analysis completes with a report and the status
\* of its tender was changed by hand since the analysis started, the tender
\* keeps the status chosen by hand.
C25_ManualStatusKept ==
  [][\A id \in TenderIds :
       AnalysisJustResolved(id)
         /\ TenderWithId(tenders, id).status # analyses[id].tender.status
       => TenderWithId(tenders', id).status = TenderWithId(tenders, id).status]_vars

\* The status the claim gives for each decision of a report.
ClaimedStatus(decision) ==
  IF decision = "KEEP" THEN "IN_PROGRESS"
  ELSE IF decision = "DISCARD" THEN "REJECTED"
  ELSE IF decision = "REVIEW" THEN "IN_DOUBT"
  ELSE "PENDING"

\* The step is a status change made by hand on the tender id.
ManualChange(id) ==
  /\ selectedTender # Null /\ selectedTender.id = id
  /\ selectedTender' # Null /\ selectedTender'.status = TenderWithId(tenders', id).status
  /\ analysisEnded' = Null

\* C26: the step that completes an analysis with a report gives the tender,
\* at once, the report and the status that goes with its decision, never
\* ARCHIVED; a report appears on a tender only in such a step; and the
\* status of a tender that has a report changes only in such a step or by a
\* status change made by hand.
C26_ReportAndStatusTogether ==
  [][\A id \in TenderIds :
       (\E k \in 1..Len(tenders) : tenders[k].id = id) =>
         LET before == TenderWithId(tenders, id)
             after  == TenderWithId(tenders', id)
         IN /\ AnalysisJustResolved(id) =>
                 /\ after.aiAnalysis # Null
                 /\ after.status = ClaimedStatus(after.aiAnalysis.decision)
                 /\ after.status # "ARCHIVED"
            /\ after.aiAnalysis # before.aiAnalysis => AnalysisJustResolved(id)
            /\ before.aiAnalysis # Null /\ after.status # before.status =>
                 AnalysisJustResolved(id) \/ ManualChange(id)]_vars

\* A tender whose report asks for something else than keeping, discarding
\* or reviewing is pending, next to one that its report sent to review.
C26_Witness ==
  /\ Len(tenders) = 2
  /\ \E k \in 1..2 : /\ tenders[k].aiAnalysis = [decision |-> "MAYBE"]
                     /\ tenders[k].status = "PENDING"
  /\ \E k \in 1..2 : /\ tenders[k].aiAnalysis = [decision |-> "REVIEW"]
                     /\ tenders[k].status = "IN_DOUBT"

\* ------------------------------------------------------------------------
\* Properties of the summary upload and of the scan of the tender page.

\* The step leaves every call where it is in the list of the calls.
SameCalls == Len(runs') = Len(runs)

\* The step is the upload of a summary: one more call, of handleFile.
SummaryUploaded ==
  Len(runs') = Len(runs) + 1 /\ runs'[Len(runs')].kind = "file"

\* The address of the tender page is known to the call: the sheet states
\* it, or a link of the sheet holds 'contratacion' or 'placsp'.
KnownUrl(run) ==
  run.metadata.tenderPageUrl # "" \/ run.pdfLinks.links = "with portal"

\* The step sends the call r to scrapeDocsFromWeb.
ScrapeRequested(r) ==
  SameCalls /\ runs[r].pc # "scrape" /\ runs'[r].pc = "scrape"

AntiRobot == ShowError("Bloqueo anti-robot. Descarga manual.")

\* C30 as stated: the anti-robot error appears only in a step in which a
\* download of that call returns without a file, no download of the call
\* having delivered one; never in the step in which the scan of the page
\* returns, no download having been attempted.
C30_ErrorOnlyAfterFailedDownload ==
  [][form.downloadError # AntiRobot /\ form'.downloadError = AntiRobot
     => /\ Len(runs') < Len(runs)
        /\ \E r \in 1..Len(runs) :
             /\ runs[r].pc \in {"download admin", "download tech"}
             /\ runs[r].downloadCount = 0]_vars


\* The step is taken by a call of handleFile or handleManualScrape that was
\* awaiting, not by the user.
CallStep == runs' # runs /\ Len(runs') <= Len(runs)

\* C28 as stated: a step of a call changes the admin or the tech file of the
\* form only from none to a file it fetched; a file the user put there
\* stays, and a file the user removed does not come back.
C28_ManualFileKept ==
  [][CallStep =>
       /\ form'.adminFile # form.adminFile =>
            form.adminFile = Null /\ form'.adminFile = FetchedFile
       /\ form'.techFile # form.techFile =>
            form.techFile = Null /\ form'.techFile = FetchedFile]_vars

\* The second half alone: a step of a call never puts a file of the user
\* into a zone.
C28_NeverRestored ==
  [][CallStep =>
       /\ form'.adminFile # form.adminFile => form'.adminFile # UserFile
       /\ form'.techFile # form.techFile => form'.techFile # UserFile]_vars


\* The fields of the form that resetForm clears.
RecordFields(f) ==
  <<f.name, f.budget, f.scoringSystem, f.tenderPageUrl, f.adminUrl, f.adminFile,
    f.techUrl, f.techFile, f.downloadError>>

\* C27 as stated: while the form is closed, which it is only after having
\* been reset and with only calls started before the reset awaiting, no step
\* changes a field of the record being entered.
C27_ResetFormUntouched ==
  [][~form.isOpen /\ ~form'.isOpen
     => RecordFields(form') = RecordFields(form)]_vars

\* The same for the fields that go into the next tender (the error banner
\* left out).
C27_NextRecordClean ==
  [][~form.isOpen /\ ~form'.isOpen
     => [form' EXCEPT !.downloadError = NoError, !.isExtracting = FALSE]
        = [form EXCEPT !.downloadError = NoError, !.isExtracting = FALSE]]_vars


\* C29 as stated: isExtracting is true exactly while a call of handleFile
\* (for a summary) or of handleManualScrape is awaiting.
C29_FlagWhileInFlight ==
  form.isExtracting <=> Len(runs) > 0

=============================================================================
